---------------------------- MODULE Spec2Model ----------------------------
(***************************************************************************)
(* LoongArch64 translation-table management of edk2, as a state machine.   *)
(*                                                                         *)
(*   Spec        LoongArch64CpuMmuLib (CommonMmuLib.c, PeiCpuMmuLib.c) and *)
(*               its caller CpuDxeLoongArch64/CpuDxe.c                     *)
(*   SpecCpuMmu  CpuMmuLib/LoongArch64/CpuMmu.c                            *)
(*                                                                         *)
(* A table entry is one 64-bit word.  It is kept as a record               *)
(*   [bits |-> the set of indices of the bits set outside 12..47,          *)
(*    ppn  |-> the value of bits 12..47]                                   *)
(* so bit 12 (PAGE_HGLOBAL) is the lowest bit of ppn, as in the word.      *)
(* Addresses are naturals in address units; a page has 2^PageShift units   *)
(* and every table has 2^EntryBits entries (the geometry scaled down).     *)
(* Table memory is a function from page numbers to tables.                 *)
(* ASSERT is compiled out (a RELEASE build): the model follows the code    *)
(* that runs after it.                                                     *)
(***************************************************************************)
EXTENDS Integers, Sequences, FiniteSets, TLC

VARIABLES
  mem,         \* page number -> table (function 0..N-1 -> entry), allocated table pages
  pgdl,        \* CSR LOONGARCH_CSR_PGDL: address of the root table, 0 when unset
  mMmuInited,  \* CommonMmuLib.c global
  crmdPg,      \* CSR CRMD bit 4: translation enabled
  maxLevel,    \* level count encoded in CSR PWCTL0/PWCTL1 (0, 3, 4 or 5)
  calls,       \* number of table-changing operations performed so far
  last         \* the latest operation: its arguments, its result, the state before it

vars == <<mem, pgdl, mMmuInited, crmdPg, maxLevel, calls, last>>

---------------------------------------------------------------------------
(* Bounds of the model *)

PageShift == 1      \* scaled EFI_PAGE_SHIFT (12 in the program)
EntryBits == 1      \* scaled index width of every table level (8 or 9 in the program)
MaxPage == 5        \* requests start in pages 0 .. MaxPage-1
MaxLen == 2         \* requests are 1 .. MaxLen pages long
MaxCalls == 1       \* table-changing operations per behaviour
MaxTables == 8      \* page numbers 1 .. MaxTables are the allocator's pool
MaxBudget == 2      \* pages the allocator can hand out during one call
MaxValue == 3       \* the words of the compare-exchange are 0 .. MaxValue
ByteBits == 1       \* scaled width of a byte (8 in the program)
NProcs == 2         \* processors executing a synchronization function concurrently

---------------------------------------------------------------------------
(* Page table property definitions, CpuMmuLib.h *)

PAGE_VALID_SHIFT == 0
PAGE_DIRTY_SHIFT == 1
PAGE_PLV_SHIFT == 2
CACHE_SHIFT == 4
PAGE_GLOBAL_SHIFT == 6
PAGE_HUGE_SHIFT == 6
PAGE_HGLOBAL_SHIFT == 12
PAGE_PFN_SHIFT == 12
PAGE_NO_READ_SHIFT == 61
PAGE_NO_EXEC_SHIFT == 62

PAGE_VALID == {PAGE_VALID_SHIFT}
PAGE_DIRTY == {PAGE_DIRTY_SHIFT}
PAGE_GLOBAL == {PAGE_GLOBAL_SHIFT}
PAGE_HUGE == {PAGE_HUGE_SHIFT}
PAGE_NO_READ == {PAGE_NO_READ_SHIFT}
PAGE_NO_EXEC == {PAGE_NO_EXEC_SHIFT}
CACHE_MASK == {CACHE_SHIFT, CACHE_SHIFT + 1}
PLV_KERNEL == {}
CACHE_SUC == {}
CACHE_CC == {CACHE_SHIFT}
CACHE_WUC == {CACHE_SHIFT + 1}

EFI_MEMORY_CACHETYPE_MASK == {"UC", "WC", "WT", "WB", "UCE"}

\* PAGE_HGLOBAL is bit 12, the lowest bit of the page-number field.
HasHGlobal(e) == e.ppn % 2 = 1
SetHGlobal(e) == [e EXCEPT !.ppn = IF @ % 2 = 1 THEN @ ELSE @ + 1]

---------------------------------------------------------------------------
(* Words, addresses, statuses *)

EFI_PAGE_SIZE == 2 ^ PageShift
NULL == 0
INVALID_PAGE == [bits |-> {}, ppn |-> 0]
\* An entry pointer is <<table page, index>>; the null entry pointer
NULL_ENTRY == <<NULL, 0>>

EFI_SUCCESS == "EFI_SUCCESS"
EFI_OUT_OF_RESOURCES == "EFI_OUT_OF_RESOURCES"
EFI_UNSUPPORTED == "EFI_UNSUPPORTED"
EFI_NOT_FOUND == "EFI_NOT_FOUND"
EFI_INVALID_PARAMETER == "EFI_INVALID_PARAMETER"

EFI_ERROR(st) == st # EFI_SUCCESS

\* Status |= X on the codes 0 and EFI_OUT_OF_RESOURCES
StatusOr(a, b) == IF a = EFI_SUCCESS THEN b ELSE a

Min(S) == CHOOSE x \in S : \A y \in S : x <= y

TableIndex == 0 .. (2 ^ EntryBits - 1)
ZeroTable == [i \in TableIndex |-> INVALID_PAGE]
TablePool == 1 .. MaxTables

(***************************************************************************)
(* The machine state a call works on:                                      *)
(*   mem     table memory          budget  pages the allocator still has   *)
(*   log     the stores, allocations ("nomem": a failed one), frees and     *)
(*           invalidations, in order                                       *)
(*   ptr     the page AllocatePages returned (NULL: none)                   *)
(*   eptr    the entry pointer the latest xxxAllocGet returned             *)
(*   st      the status the latest step returned                           *)
(*   wild    a store went beyond the end of its table (the loop ran off)   *)
(***************************************************************************)
Machine(m, b) ==
  [mem |-> m, budget |-> b, log |-> <<>>, ptr |-> NULL, eptr |-> <<NULL, 0>>,
   st |-> EFI_SUCCESS, wild |-> FALSE]

\* A variant that hands out the first page of the pool, in use or not.
AllocatePagesInUse(s) ==
  LET p == Min(TablePool \ {1})
  IN  [s EXCEPT !.mem = [q \in DOMAIN s.mem \cup {p} |->
                           IF q = p THEN ZeroTable ELSE s.mem[q]],
                !.ptr = p,
                !.log = Append(@, <<"alloc", p>>)]

\* AllocatePages (1) followed by the ZeroMem / PageDirInit every caller does at once.
AllocatePages(s) ==
  LET free == TablePool \ DOMAIN s.mem
  IN  IF s.budget = 0 \/ free = {}
      THEN [s EXCEPT !.ptr = NULL, !.log = Append(@, <<"nomem">>)]
      ELSE LET p == Min(free)
           IN  [s EXCEPT !.mem = [q \in DOMAIN s.mem \cup {p} |->
                                    IF q = p THEN ZeroTable ELSE s.mem[q]],
                         !.budget = @ - 1,
                         !.ptr = p,
                         !.log = Append(@, <<"alloc", p>>)]

FreePages(s, p) ==
  [s EXCEPT !.mem = [q \in DOMAIN s.mem \ {p} |-> s.mem[q]],
            !.budget = @ + 1,
            !.log = Append(@, <<"free", p>>)]

\* *Entry = Value, Entry = &Table[Index]
Store(s, t, i, v) ==
  IF t \in DOMAIN s.mem /\ i \in TableIndex
  THEN [s EXCEPT !.mem[t][i] = v, !.log = Append(@, <<"store", t, i, v>>)]
  ELSE [s EXCEPT !.wild = TRUE]

Load(s, t, i) ==
  IF t \in DOMAIN s.mem /\ i \in TableIndex THEN s.mem[t][i] ELSE INVALID_PAGE

InvalidTlb(s, Address) == [s EXCEPT !.log = Append(@, <<"inv", Address>>)]


---------------------------------------------------------------------------
(* LoongArch64CpuMmuLib/Page.h: the four-level geometry and the entry macros *)

PTE_WIDE == EntryBits
PMD_WIDE == EntryBits
PUD_WIDE == EntryBits
PGD_WIDE == EntryBits

PMD_SHIFT == PageShift + PTE_WIDE
PUD_SHIFT == PMD_SHIFT + PMD_WIDE
PGD_SHIFT == PUD_SHIFT + PUD_WIDE
MAX_VA_BITS == PGD_SHIFT + PGD_WIDE

PMD_SIZE == 2 ^ PMD_SHIFT
PUD_SIZE == 2 ^ PUD_SHIFT
PGD_SIZE == 2 ^ PGD_SHIFT
HUGE_PAGE_SIZE == PMD_SIZE

\* The model's UINTN: wide enough that only a decrement of 0 wraps.
UINTN_MAX == 2 ^ (MAX_VA_BITS + 2) - 1
Dec(x) == IF x = 0 THEN UINTN_MAX ELSE x - 1

\* Addr & XXX_MASK
AlignDown(Address, Size) == (Address \div Size) * Size

PTE_INDEX(Address) == (Address \div EFI_PAGE_SIZE) % (2 ^ PTE_WIDE)
PMD_INDEX(Address) == (Address \div PMD_SIZE) % (2 ^ PMD_WIDE)
PUD_INDEX(Address) == (Address \div PUD_SIZE) % (2 ^ PUD_WIDE)
PGD_INDEX(Address) == (Address \div PGD_SIZE) % (2 ^ PGD_WIDE)

\* ({UINTN Boundary = (Addr + SIZE) & MASK; (Boundary - 1 < End - 1) ? Boundary : End;})
ADDRESS_END(Address, End, Size) ==
  LET Boundary == AlignDown(Address + Size, Size)
  IN  IF Dec(Boundary) < Dec(End) THEN Boundary ELSE End

PMD_ADDRESS_END(Address, End) == ADDRESS_END(Address, End, PMD_SIZE)
PUD_ADDRESS_END(Address, End) == ADDRESS_END(Address, End, PUD_SIZE)
PGD_ADDRESS_END(Address, End) == ADDRESS_END(Address, End, PGD_SIZE)

PGD_IS_EMPTY(e) == e = INVALID_PAGE
PUD_IS_EMPTY(e) == e = INVALID_PAGE
PMD_IS_EMPTY(e) == e = INVALID_PAGE
PTE_IS_EMPTY(e) == e = INVALID_PAGE

\* A huge-page entry has the huge and the huge-global bit both set.
IS_HUGE_PAGE(e) == PAGE_HUGE \subseteq e.bits /\ HasHGlobal(e)

\* The bits of the entry outside the page-number field.
GET_PAGE_ATTRIBUTES(e) == e.bits

MAKE_PTE(Address, Attributes) ==
  [bits |-> Attributes, ppn |-> Address \div EFI_PAGE_SIZE]

MAKE_HUGE_PTE(Address, Attributes) ==
  SetHGlobal([bits |-> Attributes \cup PAGE_HUGE,
              ppn  |-> AlignDown(Address, HUGE_PAGE_SIZE) \div EFI_PAGE_SIZE])

---------------------------------------------------------------------------
(* CommonMmuLib.c *)

\* SWAP_PAGE_DIR
SWAP_PAGE_DIR(root) == root

MmuIsInit(inited, root) == inited \/ SWAP_PAGE_DIR(root) # 0

\* Ptr + 1 is the entry pointer with the next index.
PgdOffset(root, Address) == <<SWAP_PAGE_DIR(root), PGD_INDEX(Address)>>
PudOffset(s, Pgd, Address) == <<Load(s, Pgd[1], Pgd[2]).ppn, PUD_INDEX(Address)>>
PmdOffset(s, Pud, Address) == <<Load(s, Pud[1], Pud[2]).ppn, PMD_INDEX(Address)>>
PteOffset(s, Pmd, Address) == <<Load(s, Pmd[1], Pmd[2]).ppn, PTE_INDEX(Address)>>
Inc(Ptr) == <<Ptr[1], Ptr[2] + 1>>

SetPte(s, Pte, PteVal) == Store(s, Pte[1], Pte[2], PteVal)
SetPgd(s, Pgd, Pud) == Store(s, Pgd[1], Pgd[2], [bits |-> {}, ppn |-> Pud])
SetPud(s, Pud, Pmd) == Store(s, Pud[1], Pud[2], [bits |-> {}, ppn |-> Pmd])
\* SetPmd (Pmd, (PTE *)Value): the word is stored as it is
SetPmd(s, Pmd, Value) == Store(s, Pmd[1], Pmd[2], Value)
TablePointer(p) == [bits |-> {}, ppn |-> p]

\* PudAlloc, PmdAlloc, PteAlloc: allocate, clear, store the pointer in the parent entry
DirAlloc(s, Parent) ==
  LET Link(a) ==
        IF a.ptr = NULL
        THEN [a EXCEPT !.st = EFI_OUT_OF_RESOURCES]
        ELSE [Store(a, Parent[1], Parent[2], TablePointer(a.ptr)) EXCEPT !.st = EFI_SUCCESS]
  IN  Link(AllocatePages(s))

PudAlloc(s, Pgd) == DirAlloc(s, Pgd)
PmdAlloc(s, Pud) == DirAlloc(s, Pud)
PteAlloc(s, Pmd) == DirAlloc(s, Pmd)

\* The result's eptr is the entry pointer, NULL_ENTRY when the allocation failed.
PudAllocGet(s, Pgd, Address) ==
  LET Get(a) == IF EFI_ERROR(a.st) THEN [a EXCEPT !.eptr = NULL_ENTRY]
                ELSE [a EXCEPT !.eptr = PudOffset(a, Pgd, Address)]
  IN  Get(IF PGD_IS_EMPTY(Load(s, Pgd[1], Pgd[2])) THEN PudAlloc(s, Pgd)
          ELSE [s EXCEPT !.st = EFI_SUCCESS])

PmdAllocGet(s, Pud, Address) ==
  LET Get(a) == IF EFI_ERROR(a.st) THEN [a EXCEPT !.eptr = NULL_ENTRY]
                ELSE [a EXCEPT !.eptr = PmdOffset(a, Pud, Address)]
  IN  Get(IF PUD_IS_EMPTY(Load(s, Pud[1], Pud[2])) THEN PmdAlloc(s, Pud)
          ELSE [s EXCEPT !.st = EFI_SUCCESS])

PteAllocGet(s, Pmd, Address) ==
  LET Get(a) == IF EFI_ERROR(a.st) THEN [a EXCEPT !.eptr = NULL_ENTRY]
                ELSE [a EXCEPT !.eptr = PteOffset(a, Pmd, Address)]
  IN  Get(IF PMD_IS_EMPTY(Load(s, Pmd[1], Pmd[2])) THEN PteAlloc(s, Pmd)
          ELSE [s EXCEPT !.st = EFI_SUCCESS])

\* NULL_ENTRY, or the pointer to the entry that maps Address (a PMD entry for a huge page)
GetPteAddress(s, root, Address) ==
  LET AtPmd(Pmd) ==
        IF PMD_IS_EMPTY(Load(s, Pmd[1], Pmd[2])) THEN NULL_ENTRY
        ELSE IF IS_HUGE_PAGE(Load(s, Pmd[1], Pmd[2])) THEN Pmd
        ELSE PteOffset(s, Pmd, Address)
      AtPud(Pud) ==
        IF PUD_IS_EMPTY(Load(s, Pud[1], Pud[2])) THEN NULL_ENTRY
        ELSE AtPmd(PmdOffset(s, Pud, Address))
      AtPgd(Pgd) ==
        IF PGD_IS_EMPTY(Load(s, Pgd[1], Pgd[2])) THEN NULL_ENTRY
        ELSE AtPud(PudOffset(s, Pgd, Address))
  IN  AtPgd(PgdOffset(root, Address))

\* The huge entry's bits below the huge-page frame and above the page-number field,
\* with HGLOBAL (bit 12) moved to GLOBAL (bit 6).
GetHugePageAttributes(e) ==
  e.bits \cup (IF HasHGlobal(e) THEN PAGE_GLOBAL ELSE {})

\* The do-while of MemoryMapPteRange from its first iteration on
RECURSIVE PteLoop(_, _, _, _, _)
PteLoop(s, Pte, Address, End, Attributes) ==
  LET PteVal == MAKE_PTE(Address, Attributes)
      Old    == Load(s, Pte[1], Pte[2])
      UpDate == (~PTE_IS_EMPTY(Old)) /\ Old # PteVal
      A2     == Address + EFI_PAGE_SIZE
      While(s2) == IF s2.wild \/ A2 = End THEN s2
                   ELSE PteLoop(s2, Inc(Pte), A2, End, Attributes)
      Flush(s1) == While(IF UpDate THEN InvalidTlb(s1, Address) ELSE s1)
  IN  Flush(SetPte(s, Pte, PteVal))

MemoryMapPteRange(s, Pmd, Address, End, Attributes) ==
  LET Fill(a) ==
        IF a.eptr = NULL_ENTRY THEN [a EXCEPT !.st = EFI_OUT_OF_RESOURCES]
        ELSE [PteLoop(a, a.eptr, Address, End, Attributes) EXCEPT !.st = EFI_SUCCESS]
  IN  Fill(PteAllocGet(s, Pmd, Address))

ConvertHugePageToPage(s, Pmd, Address, End, Attributes) ==
  LET Old == Load(s, Pmd[1], Pmd[2])
      OldAttributes == GetHugePageAttributes(Old)
      HugePageStart == AlignDown(Address, PMD_SIZE)
      HugePageEnd   == HugePageStart + HUGE_PAGE_SIZE
      \* Status |= ... over the three calls
      Third(s2, Status) ==
        IF End < HugePageEnd
        THEN LET Ret(s3) == [s3 EXCEPT !.st = StatusOr(Status, s3.st)]
             IN  Ret(MemoryMapPteRange(s2, Pmd, End, HugePageEnd, OldAttributes))
        ELSE [s2 EXCEPT !.st = Status]
      Second(s1) ==
        LET Go(s2) == Third(s2, StatusOr(s1.st, s2.st))
        IN  Go(MemoryMapPteRange(s1, Pmd, Address, End, Attributes))
      First(s0) ==
        Second(IF Address > HugePageStart
               THEN MemoryMapPteRange(s0, Pmd, HugePageStart, Address, OldAttributes)
               ELSE [s0 EXCEPT !.st = EFI_SUCCESS])
  IN  IF PMD_IS_EMPTY(Old) \/ ~IS_HUGE_PAGE(Old)
      THEN MemoryMapPteRange(s, Pmd, Address, End, Attributes)
      ELSE IF Attributes = OldAttributes
      THEN [s EXCEPT !.st = EFI_SUCCESS]
      ELSE First(SetPmd(s, Pmd, INVALID_PAGE))

\* The do-while of MemoryMapPmdRange; the status ConvertHugePageToPage returns is dropped.
RECURSIVE PmdLoop(_, _, _, _, _)
PmdLoop(s, Pmd, Address, End, Attributes) ==
  LET Nxt    == PMD_ADDRESS_END(Address, End)
      Old    == Load(s, Pmd[1], Pmd[2])
      PteVal == MAKE_HUGE_PTE(Address, Attributes)
      UpDate == (~PMD_IS_EMPTY(Old)) /\ Old # PteVal
      Flush(w) == IF UpDate THEN InvalidTlb(w, Address) ELSE w
      While(s1) == IF s1.wild \/ Nxt = End THEN s1
                   ELSE PmdLoop(s1, Inc(Pmd), Nxt, End, Attributes)
  IN  While(IF /\ Address % PMD_SIZE = 0
               /\ Nxt % PMD_SIZE = 0
               /\ (PMD_IS_EMPTY(Old) \/ IS_HUGE_PAGE(Old))
            THEN Flush(SetPmd(s, Pmd, PteVal))
            ELSE ConvertHugePageToPage(s, Pmd, Address, Nxt, Attributes))

MemoryMapPmdRange(s, Pud, Address, End, Attributes) ==
  LET Fill(a) ==
        IF a.eptr = NULL_ENTRY THEN [a EXCEPT !.st = EFI_OUT_OF_RESOURCES]
        ELSE [PmdLoop(a, a.eptr, Address, End, Attributes) EXCEPT !.st = EFI_SUCCESS]
  IN  Fill(PmdAllocGet(s, Pud, Address))

RECURSIVE PudLoop(_, _, _, _, _)
PudLoop(s, Pud, Address, End, Attributes) ==
  LET Nxt == PUD_ADDRESS_END(Address, End)
      While(s1) == IF EFI_ERROR(s1.st) THEN [s1 EXCEPT !.st = EFI_OUT_OF_RESOURCES]
                   ELSE IF s1.wild \/ Nxt = End THEN s1
                   ELSE PudLoop(s1, Inc(Pud), Nxt, End, Attributes)
  IN  While(MemoryMapPmdRange(s, Pud, Address, Nxt, Attributes))

MemoryMapPudRange(s, Pgd, Address, End, Attributes) ==
  LET Fill(a) ==
        IF a.eptr = NULL_ENTRY THEN [a EXCEPT !.st = EFI_OUT_OF_RESOURCES]
        ELSE PudLoop(a, a.eptr, Address, End, Attributes)
  IN  Fill(PudAllocGet(s, Pgd, Address))

RECURSIVE PgdLoop(_, _, _, _, _)
PgdLoop(s, Pgd, Address, End, Attributes) ==
  LET Nxt == PGD_ADDRESS_END(Address, End)
      While(s1) == IF EFI_ERROR(s1.st) THEN s1
                   ELSE IF s1.wild \/ Nxt = End THEN s1
                   ELSE PgdLoop(s1, Inc(Pgd), Nxt, End, Attributes)
  IN  While(MemoryMapPudRange(s, Pgd, Address, Nxt, Attributes))

MemoryMapPageRange(s, root, Start, End, Attributes) ==
  PgdLoop(s, PgdOffset(root, Start), Start, End, Attributes)

\* EfiAttributes is the set of the EFI_MEMORY_xx bits that are set.
EfiAttributeConverse(EfiAttributes) ==
  LET Cache == EfiAttributes \cap EFI_MEMORY_CACHETYPE_MASK
      a0 == PAGE_VALID \cup PAGE_DIRTY \cup PLV_KERNEL \cup PAGE_GLOBAL
      a1 == CASE Cache = {"UC"} -> a0 \cup CACHE_SUC
              [] Cache \in {{"WC"}, {"WT"}, {"WB"}} -> a0 \cup CACHE_CC
              [] OTHER -> a0 \cup CACHE_CC
      a2 == IF "RO" \in EfiAttributes \/ "WP" \in EfiAttributes
            THEN a1 \ PAGE_DIRTY ELSE a1
      a3 == IF "RP" \in EfiAttributes THEN a2 \cup PAGE_NO_READ ELSE a2
  IN  IF "XP" \in EfiAttributes THEN a3 \cup PAGE_NO_EXEC ELSE a3

\* The while loop of GetMemoryRegionAttribute; q = [st, len, attr]
RECURSIVE RegionScan(_, _, _, _, _, _)
RegionScan(s, root, BaseAddress, EndAddress, Attributes, RegionLength) ==
  LET MaxAddress == 2 ^ MAX_VA_BITS - 1
      Leaf(e) ==
        LET Step == IF IS_HUGE_PAGE(e) THEN HUGE_PAGE_SIZE ELSE EFI_PAGE_SIZE
            Len2 == IF GET_PAGE_ATTRIBUTES(e) = Attributes
                    THEN RegionLength + Step ELSE RegionLength
        IN  IF BaseAddress + Step > EndAddress THEN Len2
            ELSE RegionScan(s, root, BaseAddress + Step, EndAddress, Attributes, Len2)
      At(Pte) == IF Pte = NULL_ENTRY THEN RegionLength
                 ELSE Leaf(Load(s, Pte[1], Pte[2]))
  IN  IF ~(BaseAddress <= MaxAddress) THEN RegionLength
      ELSE At(GetPteAddress(s, root, BaseAddress))

\* RegionLength comes in with the caller's value; RegionAttributes is not written
\* ({} here) when the function returns an error.
GetMemoryRegionAttribute(s, inited, root, BaseAddress, EndAddress, RegionLength) ==
  LET Leaf(e) ==
        LET Attributes == GET_PAGE_ATTRIBUTES(e)
            Len1 == RegionLength
                      + (IF IS_HUGE_PAGE(e) THEN HUGE_PAGE_SIZE ELSE EFI_PAGE_SIZE)
        IN  [st   |-> EFI_SUCCESS,
             len  |-> RegionScan(s, root, BaseAddress, EndAddress, Attributes, Len1),
             attr |-> IF IS_HUGE_PAGE(e) THEN Attributes \ PAGE_HUGE ELSE Attributes]
      At(Pte) == IF Pte = NULL_ENTRY
                 THEN [st |-> EFI_NOT_FOUND, len |-> RegionLength, attr |-> {}]
                 ELSE Leaf(Load(s, Pte[1], Pte[2]))
  IN  IF ~MmuIsInit(inited, root)
      THEN [st |-> EFI_UNSUPPORTED, len |-> RegionLength, attr |-> {}]
      ELSE At(GetPteAddress(s, root, BaseAddress))

\* The status MemoryMapPageRange returns is dropped.
SetMemoryAttributes(s, inited, root, BaseAddress, Length, Attributes) ==
  IF ~MmuIsInit(inited, root) THEN [s EXCEPT !.st = EFI_UNSUPPORTED]
  ELSE [MemoryMapPageRange(s, root, BaseAddress, BaseAddress + Length,
                           EfiAttributeConverse(Attributes))
          EXCEPT !.st = EFI_SUCCESS]


---------------------------------------------------------------------------
(* CpuDxeLoongArch64/CpuDxe.c *)

\* (Size >> EFI_PAGE_SHIFT) + (((Size) & EFI_PAGE_MASK) ? 1 : 0), and back
EFI_SIZE_TO_PAGES(Size) ==
  Size \div EFI_PAGE_SIZE + (IF Size % EFI_PAGE_SIZE # 0 THEN 1 ELSE 0)
EFI_PAGES_TO_SIZE(Count) == Count * EFI_PAGE_SIZE

\* The status of SetMemoryAttributes is not read.
SetMemoryRegionNoExec(s, inited, root, BaseAddress, Length) ==
  LET Done(s1) == [s1 EXCEPT !.st = EFI_SUCCESS]
  IN  IF MmuIsInit(inited, root)
      THEN Done(SetMemoryAttributes(s, inited, root, BaseAddress,
                                    EFI_PAGES_TO_SIZE(EFI_SIZE_TO_PAGES(Length)), {"XP"}))
      ELSE Done(s)

\* The result is the machine after the call, st the status returned, and q the
\* result of the first query.
CpuSetMemoryAttributes(s, inited, root, BaseAddress, Length, EfiAttributes) ==
  LET LoongArchAttributes == EfiAttributeConverse(EfiAttributes)
      Done(s1) == [m |-> [s1 EXCEPT !.st = EFI_SUCCESS], shortcut |-> FALSE]
      Decide(q) ==
        IF \/ EFI_ERROR(q.st)
           \/ q.attr # LoongArchAttributes
           \/ BaseAddress + Length > BaseAddress + q.len
        THEN Done(SetMemoryAttributes(s, inited, root, BaseAddress, Length, EfiAttributes))
        ELSE [m |-> [s EXCEPT !.st = EFI_SUCCESS], shortcut |-> TRUE]
  IN  IF BaseAddress % EFI_PAGE_SIZE # 0
      THEN [m |-> [s EXCEPT !.st = EFI_UNSUPPORTED], shortcut |-> FALSE]
      ELSE Decide(GetMemoryRegionAttribute(s, inited, root, BaseAddress,
                                           BaseAddress + Length, 0))

---------------------------------------------------------------------------
(* PeiCpuMmuLib.c *)

\* Boot-time memory maps (without the zero-length end descriptor), as
\* GetMemoryMapPolicy builds them: an uncached device region, cached memory.
\* BootMaps is the caller's memory: the list at address p is BootMaps[p].
DeviceAttr == PAGE_VALID \cup PLV_KERNEL \cup CACHE_SUC \cup PAGE_DIRTY \cup PAGE_GLOBAL
MemoryAttr == PAGE_VALID \cup PLV_KERNEL \cup CACHE_CC \cup PAGE_DIRTY \cup PAGE_GLOBAL
Region(b, n, a) == [VirtualBase |-> b, Length |-> n, Attributes |-> a]
BootMaps ==
  << <<>>,
     << Region(0, HUGE_PAGE_SIZE, MemoryAttr) >>,
     << Region(EFI_PAGE_SIZE, 2 * EFI_PAGE_SIZE, MemoryAttr) >>,
     << Region(0, EFI_PAGE_SIZE, DeviceAttr), Region(EFI_PAGE_SIZE, EFI_PAGE_SIZE, MemoryAttr) >>,
     << Region(HUGE_PAGE_SIZE, HUGE_PAGE_SIZE, DeviceAttr) >> >>

\* The count GetMemoryMapPolicy returns with the table: the number of descriptors
\* before the end descriptor, or -1 with the table of the device region alone
\* when etc/memmap cannot be read.
BootCounts(MemoryTable) ==
  IF MemoryTable = NULL THEN {0}
  ELSE {Len(BootMaps[MemoryTable])}
         \cup (IF BootMaps[MemoryTable] = << Region(HUGE_PAGE_SIZE, HUGE_PAGE_SIZE, DeviceAttr) >>
               THEN {UINTN_MAX} ELSE {})

\* FillTranslationTable over MemoryTable[i .. Count]; a descriptor is
\* [VirtualBase, Length, Attributes] with Attributes already in entry encoding.
\* What lies behind the end descriptor is not the table's: reading it is wild.
RECURSIVE FillLoop(_, _, _, _, _)
FillLoop(s, root, MemoryTable, i, Count) ==
  LET While(s1) == IF EFI_ERROR(s1.st) \/ s1.wild THEN s1
                   ELSE FillLoop(s1, root, MemoryTable, i + 1, Count)
      \* the descriptor after the last one is the zero-filled end descriptor
      d == IF i <= Len(MemoryTable) THEN MemoryTable[i] ELSE Region(0, 0, {})
  IN  IF i > Count THEN [s EXCEPT !.st = EFI_SUCCESS]
      ELSE IF i > Len(MemoryTable) + 1 THEN [s EXCEPT !.wild = TRUE]
      ELSE While(MemoryMapPageRange(s, root, d.VirtualBase, d.Length + d.VirtualBase,
                                    d.Attributes))

\* MemoryTable is the address of the descriptor list (NULL: none).
\* HandlerFits: the TLB refill handler passes the size and the alignment test.
\* The result's ptr is the value left in CSR PGDL.
ConfigureMemoryManagementUint(s, MemoryTable, Count, HandlerFits) ==
  LET Finish(f, SwapperPageDir) ==
        IF EFI_ERROR(f.st) \/ ~HandlerFits
        THEN [FreePages(f, SwapperPageDir)
                EXCEPT !.st = EFI_UNSUPPORTED, !.ptr = SwapperPageDir]
        ELSE [f EXCEPT !.st = EFI_SUCCESS, !.ptr = SwapperPageDir]
      Fill(a) ==
        IF a.ptr = NULL
        THEN [a EXCEPT !.st = EFI_UNSUPPORTED, !.ptr = 0, !.wild = TRUE]
        ELSE Finish(FillLoop(a, a.ptr, BootMaps[MemoryTable], 1, Count), a.ptr)
  IN  IF MemoryTable = NULL
      THEN [s EXCEPT !.st = EFI_INVALID_PARAMETER, !.ptr = 0]
      ELSE Fill(AllocatePages(s))

---------------------------------------------------------------------------
(* CpuMmuLib/LoongArch64: Page.h and the EFI attribute masks of UefiSpec.h *)

LEVEL5 == 5
LEVEL4 == 4
LEVEL3 == 3

\* 0x600000000000007E: dirty, privilege level, cache policy, global, no-read, no-exec
PTE_ATTRIBUTES_MASK ==
  PAGE_DIRTY \cup {PAGE_PLV_SHIFT, PAGE_PLV_SHIFT + 1} \cup CACHE_MASK
    \cup PAGE_GLOBAL \cup PAGE_NO_READ \cup PAGE_NO_EXEC

EFI_CACHE_ATTRIBUTE_MASK == {"UC", "WC", "WT", "WB", "UCE", "WP"}
EFI_MEMORY_ACCESS_MASK == {"RP", "XP", "RO"}

---------------------------------------------------------------------------
(* CpuMmuLib/LoongArch64/CpuMmu.c                                          *)
(* c = [maxLevel, pgdl, enabled] is what the CSRs PWCTL0/1, PGDL and CRMD  *)
(* hold; the index width PWCTL0 holds is EntryBits.                        *)

CpuMmuIsInit(c) == c.pgdl # 0
MmuIsEnabled(c) == c.enabled

IsValidPte(Entry) == Entry # INVALID_PAGE
IsValidHugePage(Entry) == PAGE_HUGE \subseteq Entry.bits /\ HasHGlobal(Entry)
SetValidPte(Entry) == [Entry EXCEPT !.bits = @ \cup PAGE_GLOBAL \cup PAGE_VALID]

GetCurrentMaxPageTableLevel(c) == c.maxLevel
GetCurrentPageTableBitWidth(c) == EntryBits

\* A variant that takes no entry for a block: a block is never split.
IsBlockEntryNever(c, Entry, Level) == FALSE

IsBlockEntry(c, Entry, Level) ==
  IF Level = GetCurrentMaxPageTableLevel(c) - 1
  THEN PAGE_VALID \subseteq Entry.bits
  ELSE IsValidHugePage(Entry)

\* A variant that takes no entry for a table pointer.
IsTableEntryNever(c, Entry, Level) == FALSE

IsTableEntry(c, Entry, Level) ==
  IF Level = GetCurrentMaxPageTableLevel(c) - 1
  THEN FALSE
  ELSE (~IsValidHugePage(Entry)) /\ IsValidPte(Entry)

\* A variant that invalidates after every store, live or not.
ReplaceTableEntryAlwaysFlush(s, c, Table, Index, Value, RegionStart, IsLiveBlockMapping) ==
  InvalidTlb(Store(s, Table, Index, Value), RegionStart)

\* A variant that stores and never invalidates.
ReplaceTableEntryNoFlush(s, c, Table, Index, Value, RegionStart, IsLiveBlockMapping) ==
  Store(s, Table, Index, Value)

ReplaceTableEntry(s, c, Table, Index, Value, RegionStart, IsLiveBlockMapping) ==
  LET w == Store(s, Table, Index, Value)
  IN  IF IsLiveBlockMapping /\ CpuMmuIsInit(c) THEN InvalidTlb(w, RegionStart) ELSE w

GetPpnfromPte(Entry) == Entry.ppn

\* A variant that leaves the page-number field as it is.
SetPpnToPteKeep(Entry, Address) == Entry

SetPpnToPte(Entry, Address) == [Entry EXCEPT !.ppn = Address \div EFI_PAGE_SIZE]

\* A variant that frees the table and none of the tables under it.
FreePageTablesOnly(s, c, TranslationTable, Level) == FreePages(s, TranslationTable)

RECURSIVE FreePageTablesRecursive(_, _, _, _)
RECURSIVE FreeEntries(_, _, _, _, _)
\* The for loop of FreePageTablesRecursive from Index on
FreeEntries(s, c, TranslationTable, Level, Index) ==
  IF Index >= 2 ^ GetCurrentPageTableBitWidth(c) THEN s
  ELSE LET e  == Load(s, TranslationTable, Index)
           s1 == IF IsTableEntry(c, e, Level)
                 THEN FreePageTablesRecursive(s, c, GetPpnfromPte(e), Level + 1)
                 ELSE s
       IN  FreeEntries(s1, c, TranslationTable, Level, Index + 1)

FreePageTablesRecursive(s, c, TranslationTable, Level) ==
  LET s1 == IF Level < GetCurrentMaxPageTableLevel(c) - 1
            THEN FreeEntries(s, c, TranslationTable, Level, 0)
            ELSE s
  IN  FreePages(s1, TranslationTable)

\* A variant that frees the table of the entry whether the call made it or not.
RollBackAlways(s, c, IsTable, TranslationTable, Level) ==
  [FreePageTablesRecursive(s, c, TranslationTable, Level + 1) EXCEPT !.st = s.st]

\* A variant that frees nothing.
RollBackNever(s, c, IsTable, TranslationTable, Level) == s

\* The recursion into the table of an entry of a table of level Level has
\* failed: a table the call made for the entry is freed with all it holds, a
\* table that was there is left as it is.  IsTable: the entry is a table entry.
RollBackNewTable(s, c, IsTable, TranslationTable, Level) ==
  IF ~IsTable
  THEN [FreePageTablesRecursive(s, c, TranslationTable, Level + 1) EXCEPT !.st = s.st]
  ELSE s

\* ASSERT (Expression) with Expression FALSE, at a line of CpuMmu.c: the
\* failure is logged and the call goes no further.
ASSERT_FAILED == "ASSERT_FAILED"
AssertFailed(s, line) == [s EXCEPT !.st = ASSERT_FAILED, !.log = Append(@, <<"assert", line>>)]
Halted(s) == s.st = ASSERT_FAILED

\* UpdateRegionMappingRecursive is its for loop from RegionStart on.
RECURSIVE UpdateRegionMappingRecursive(_, _, _, _, _, _, _, _, _)
UpdateRegionMappingRecursive(s, c, RegionStart, RegionEnd, AttributeSetMask, AttributeClearMask, PageTable, Level, TableIsLive) ==
  LET TableBitWidth == GetCurrentPageTableBitWidth(c)
      BlockShift == (GetCurrentMaxPageTableLevel(c) - Level - 1) * TableBitWidth + PageShift
      BlockSize  == 2 ^ BlockShift
      BlockStart == AlignDown(RegionStart, BlockSize)
      BlockEnd   == IF RegionEnd < BlockStart + BlockSize THEN RegionEnd
                    ELSE BlockStart + BlockSize
      Index      == (RegionStart \div BlockSize) % (2 ^ TableBitWidth)
      Entry      == Load(s, PageTable, Index)
      IsTable    == IsTableEntry(c, Entry, Level)
      \* the descent: the child table, allocated and (for a block) split
      a          == AllocatePages(s)
      split      == IF IsBlockEntry(c, Entry, Level)
                    THEN UpdateRegionMappingRecursive(
                           a, c, BlockStart, BlockStart + BlockSize,
                           Entry.bits \cap PTE_ATTRIBUTES_MASK, PTE_ATTRIBUTES_MASK,
                           a.ptr, Level + 1, FALSE)
                    ELSE [a EXCEPT !.st = EFI_SUCCESS]
      TranslationTable == IF IsTable THEN GetPpnfromPte(Entry) ELSE a.ptr
      NextTableIsLive  == IF IsTable THEN TableIsLive ELSE FALSE
      d          == UpdateRegionMappingRecursive(
                      IF IsTable THEN s ELSE split, c, RegionStart, BlockEnd,
                      AttributeSetMask, AttributeClearMask,
                      TranslationTable, Level + 1, NextTableIsLive)
      wired      == IF IsTable THEN d
                    ELSE ReplaceTableEntry(d, c, PageTable, Index,
                                           SetPpnToPte(INVALID_PAGE, TranslationTable * EFI_PAGE_SIZE),
                                           RegionStart, TableIsLive)
      \* the leaf
      e1         == [Entry EXCEPT !.bits = (@ \ AttributeClearMask) \cup AttributeSetMask]
      e2         == SetValidPte(SetPpnToPte(e1, RegionStart))
      EntryValue == IF Level < GetCurrentMaxPageTableLevel(c) - 1
                    THEN SetHGlobal([e2 EXCEPT !.bits = @ \cup PAGE_HUGE \cup PAGE_VALID])
                    ELSE [e2 EXCEPT !.bits = @ \cup PAGE_GLOBAL \cup PAGE_VALID]
      leaf       == ReplaceTableEntry(s, c, PageTable, Index, EntryValue, RegionStart, TableIsLive)
      rest(x)    == UpdateRegionMappingRecursive(
                      x, c, BlockEnd, RegionEnd, AttributeSetMask, AttributeClearMask,
                      PageTable, Level, TableIsLive)
  IN  IF ~(Level < GetCurrentMaxPageTableLevel(c)) THEN AssertFailed(s, 368)
      ELSE IF RegionStart % EFI_PAGE_SIZE # 0 \/ RegionEnd % EFI_PAGE_SIZE # 0
      THEN AssertFailed(s, 369)
      ELSE IF ~(RegionStart < RegionEnd) THEN [s EXCEPT !.st = EFI_SUCCESS]
      ELSE IF \/ Level < 2
              \/ RegionStart % BlockSize # 0 \/ BlockEnd % BlockSize # 0
              \/ IsTable
      THEN IF ~(Level < GetCurrentMaxPageTableLevel(c) - 1) THEN AssertFailed(s, 403)
           ELSE IF (~IsTable) /\ a.ptr = NULL
           THEN [a EXCEPT !.st = EFI_OUT_OF_RESOURCES]
           ELSE IF (~IsTable) /\ Halted(split) THEN split
           ELSE IF (~IsTable) /\ EFI_ERROR(split.st)
           THEN [FreePages(split, a.ptr) EXCEPT !.st = split.st]
           ELSE IF Halted(d) THEN d
           ELSE IF EFI_ERROR(d.st)
           THEN RollBackNewTable(d, c, IsTable, TranslationTable, Level)
           ELSE rest(wired)
      ELSE rest(leaf)

\* A variant that tests the alignment of RegionStart only and maps the pages
\* the region touches.
UpdateRegionMappingStartOnly(s, c, RegionStart, RegionLength, AttributeSetMask, AttributeClearMask, RootTable, TableIsLive) ==
  IF RegionStart % EFI_PAGE_SIZE # 0
  THEN [s EXCEPT !.st = EFI_INVALID_PARAMETER]
  ELSE UpdateRegionMappingRecursive(s, c, RegionStart,
                                    RegionStart + ((RegionLength + EFI_PAGE_SIZE - 1)
                                                     \div EFI_PAGE_SIZE) * EFI_PAGE_SIZE,
                                    AttributeSetMask, AttributeClearMask,
                                    RootTable, 0, TableIsLive)

UpdateRegionMapping(s, c, RegionStart, RegionLength, AttributeSetMask, AttributeClearMask, RootTable, TableIsLive) ==
  IF RegionStart % EFI_PAGE_SIZE # 0 \/ RegionLength % EFI_PAGE_SIZE # 0
  THEN [s EXCEPT !.st = EFI_INVALID_PARAMETER]
  ELSE UpdateRegionMappingRecursive(s, c, RegionStart, RegionStart + RegionLength,
                                    AttributeSetMask, AttributeClearMask,
                                    RootTable, 0, TableIsLive)

CpuMmuEfiAttributeConverse(EfiAttributes) ==
  LET Cache  == EfiAttributes \cap EFI_CACHE_ATTRIBUTE_MASK
      Access == EfiAttributes \cap EFI_MEMORY_ACCESS_MASK
      a0 == PAGE_VALID \cup PAGE_DIRTY \cup PLV_KERNEL \cup PAGE_GLOBAL
      a1 == CASE Cache = {"UC"} -> a0 \cup CACHE_SUC
              [] Cache = {"WC"} -> a0 \cup CACHE_WUC
              [] Cache \in {{"WT"}, {"WB"}} -> a0 \cup CACHE_CC
              [] Cache = {"WP"} -> a0 \ PAGE_DIRTY
              [] OTHER -> a0
  IN  CASE Access = {"RP"} -> a1 \cup PAGE_NO_READ
        [] Access = {"XP"} -> a1 \cup PAGE_NO_EXEC
        [] Access = {"RO"} -> a1 \ PAGE_DIRTY
        [] OTHER -> a1

\* AttributeMask is not read.
SetMemoryRegionAttributes(s, c, BaseAddress, Length, Attributes, AttributeMask) ==
  IF ~CpuMmuIsInit(c) THEN [s EXCEPT !.st = EFI_UNSUPPORTED]
  ELSE UpdateRegionMapping(s, c, BaseAddress, Length,
                           CpuMmuEfiAttributeConverse(Attributes), PTE_ATTRIBUTES_MASK,
                           c.pgdl, MmuIsEnabled(c))

---------------------------------------------------------------------------
(* The operations as actions; the inputs *)

Pages == 0 .. (MaxPage - 1)
Lengths == 1 .. MaxLen
\* How many allocations succeed before one fails; MaxTables: none fails
Budgets == (0 .. MaxBudget) \cup {MaxTables}

\* EFI attribute sets the callers pass
EfiAttrs == {{"WB"}, {"WB", "XP"}, {"UC"}}

NoQuery == [st |-> "none", len |-> 0, attr |-> {}]

Record(op, base, len, attr, s, pre, q, sc) ==
  [op |-> op, base |-> base, len |-> len, attr |-> attr, mask |-> {},
   st |-> s.st, log |-> s.log, wild |-> s.wild, pre |-> pre, q |-> q, shortcut |-> sc]

\* The root table is allocated memory (or translation is not configured).
RootUsable == pgdl = 0 \/ pgdl \in DOMAIN mem

Init ==
  /\ mem = <<>>
  /\ pgdl = 0
  /\ mMmuInited = FALSE
  /\ crmdPg = FALSE
  /\ maxLevel = 0
  /\ calls = 0
  /\ last = Record("Init", 0, 0, {}, Machine(<<>>, 0), <<>>, NoQuery, FALSE)

\* PEI calls it once, with CSR PGDL at its reset value.
CallConfigure ==
  /\ last.op = "Init"
  /\ pgdl = 0
  /\ \E MemoryTable \in {NULL} \cup DOMAIN BootMaps, b \in {0, 1, MaxTables},
        fits \in BOOLEAN :
       \E Count \in BootCounts(MemoryTable) :
         \E r \in {ConfigureMemoryManagementUint(Machine(mem, b), MemoryTable,
                                                Count, fits)} :
           /\ mem' = r.mem
           /\ pgdl' = r.ptr
           /\ maxLevel' = IF r.st = EFI_SUCCESS THEN LEVEL4 ELSE maxLevel
           /\ last' = Record("Configure", MemoryTable, Count, {}, r, mem, NoQuery, FALSE)
  /\ UNCHANGED <<mMmuInited, crmdPg, calls>>

MmuInitialize ==
  /\ last.op = "Configure"
  /\ mMmuInited' = (IF SWAP_PAGE_DIR(pgdl) # 0 THEN TRUE ELSE mMmuInited)
  /\ last' = [last EXCEPT !.op = "MmuInitialize"]
  /\ UNCHANGED <<mem, pgdl, crmdPg, maxLevel, calls>>

Booted == last.op \notin {"Init", "Configure"} /\ RootUsable
Ready == last.op \in {"MmuInitialize", "Idle"} /\ RootUsable /\ calls < MaxCalls

CallSetMemoryAttributes ==
  /\ Ready
  /\ \E p \in Pages, n \in Lengths, a \in EfiAttrs, b \in Budgets :
       \E r \in {SetMemoryAttributes(Machine(mem, b), mMmuInited, pgdl,
                                    p * EFI_PAGE_SIZE, n * EFI_PAGE_SIZE, a)} :
           /\ mem' = r.mem
           /\ last' = Record("SetMemoryAttributes", p * EFI_PAGE_SIZE, n * EFI_PAGE_SIZE,
                             a, r, mem, NoQuery, FALSE)
  /\ calls' = calls + 1
  /\ UNCHANGED <<pgdl, mMmuInited, crmdPg, maxLevel>>

\* Any address and any length, in address units: the protocol takes what its
\* caller passes.
Addresses == 0 .. (MaxPage * EFI_PAGE_SIZE - 1)
ByteLengths == 0 .. (MaxLen * EFI_PAGE_SIZE)

CallCpuSetMemoryAttributes ==
  /\ Ready
  /\ \E BaseAddress \in Addresses, Length \in ByteLengths, a \in EfiAttrs, b \in Budgets :
       \E r \in {CpuSetMemoryAttributes(Machine(mem, b), mMmuInited, pgdl,
                                       BaseAddress, Length, a)} :
           /\ mem' = r.m.mem
           /\ last' = Record("CpuSetMemoryAttributes", BaseAddress, Length,
                             a, r.m, mem, NoQuery, r.shortcut)
  /\ calls' = calls + 1
  /\ UNCHANGED <<pgdl, mMmuInited, crmdPg, maxLevel>>

CallSetMemoryRegionNoExec ==
  /\ Ready
  /\ \E p \in Pages, Length \in ByteLengths \ {0}, b \in Budgets :
       \E r \in {SetMemoryRegionNoExec(Machine(mem, b), mMmuInited, pgdl,
                                      p * EFI_PAGE_SIZE, Length)} :
           /\ mem' = r.mem
           /\ last' = Record("SetMemoryRegionNoExec", p * EFI_PAGE_SIZE, Length,
                             {"XP"}, r, mem, NoQuery, FALSE)
  /\ calls' = calls + 1
  /\ UNCHANGED <<pgdl, mMmuInited, crmdPg, maxLevel>>

\* A query reads only; it may follow any operation, once.
CallGetMemoryRegionAttribute ==
  /\ Booted
  /\ last.op # "GetMemoryRegionAttribute"
  /\ \E p \in Pages, n \in Lengths :
       \E q \in {GetMemoryRegionAttribute(Machine(mem, 0), mMmuInited, pgdl,
                                         p * EFI_PAGE_SIZE, (p + n) * EFI_PAGE_SIZE, 0)} :
           last' = Record("GetMemoryRegionAttribute", p * EFI_PAGE_SIZE, n * EFI_PAGE_SIZE,
                          {}, [Machine(mem, 0) EXCEPT !.st = q.st], last.pre, q, FALSE)
  /\ UNCHANGED <<mem, pgdl, mMmuInited, crmdPg, maxLevel, calls>>

\* The caller has taken the result of the call: its record is cleared.
Return ==
  /\ last.op \notin {"Init", "Configure", "MmuInitialize", "Boot", "Idle"}
  /\ last' = Record("Idle", 0, 0, {}, Machine(<<>>, 0), <<>>, NoQuery, FALSE)
  /\ UNCHANGED <<mem, pgdl, mMmuInited, crmdPg, maxLevel, calls>>

Next ==
  \/ CallConfigure
  \/ MmuInitialize
  \/ CallSetMemoryAttributes
  \/ CallCpuSetMemoryAttributes
  \/ CallSetMemoryRegionNoExec
  \/ CallGetMemoryRegionAttribute
  \/ Return

Spec == Init /\ [][Next]_vars

---------------------------------------------------------------------------
(* CpuMmuLib: the platform has allocated the root table and programmed     *)
(* PGDL and the page-walk controller; it maps its memory with              *)
(* SetMemoryRegionAttributes before it enables translation.                *)

Csr == [maxLevel |-> maxLevel, pgdl |-> pgdl, enabled |-> crmdPg]

CpuMmuBootMaps ==
  { <<>>,
    << <<0, 4>> >>,
    << <<2, 2>> >>,
    << <<1, 2>> >> }

RECURSIVE BootFill(_, _, _, _)
BootFill(s, c, Map, i) ==
  IF i > Len(Map) THEN s
  ELSE BootFill(SetMemoryRegionAttributes(s, c, Map[i][1] * EFI_PAGE_SIZE,
                                          Map[i][2] * EFI_PAGE_SIZE, {"WB"},
                                          EFI_CACHE_ATTRIBUTE_MASK),
                c, Map, i + 1)

InitCpuMmu ==
  /\ mem = (1 :> ZeroTable)
  /\ pgdl = 1
  /\ mMmuInited = FALSE
  /\ crmdPg = FALSE
  /\ maxLevel \in {LEVEL3, LEVEL4, LEVEL5}
  /\ calls = 0
  /\ last = Record("Init", 0, 0, {}, Machine(<<>>, 0), <<>>, NoQuery, FALSE)

\* The boot-time mapping, then CRMD.PG is set or left clear.
BootMap ==
  /\ last.op = "Init"
  /\ pgdl # 0
  /\ \E Map \in CpuMmuBootMaps, enable \in BOOLEAN :
       \E r \in {BootFill(Machine(mem, MaxTables), Csr, Map, 1)} :
           /\ mem' = r.mem
           /\ crmdPg' = enable
           /\ last' = Record("Boot",
                             IF Map = <<>> THEN 0 ELSE Map[1][1] * EFI_PAGE_SIZE,
                             IF Map = <<>> THEN 0 ELSE Map[1][2] * EFI_PAGE_SIZE,
                             {"WB"}, r, mem, NoQuery, FALSE)
  /\ UNCHANGED <<pgdl, mMmuInited, maxLevel, calls>>

CpuMmuEfiAttrs == {{"WB"}, {"UC", "XP"}}
AttributeMasks == {EFI_CACHE_ATTRIBUTE_MASK, EFI_MEMORY_ACCESS_MASK}

\* The <<set, clear>> masks of the direct callers of UpdateRegionMapping
UpdateMasks == {<<PAGE_NO_EXEC, PAGE_NO_EXEC>>, <<{}, PAGE_DIRTY>>}

CallSetMemoryRegionAttributes ==
  /\ last.op \in {"Boot", "Idle"}
  /\ calls < MaxCalls
  /\ \E p \in Pages, n \in Lengths, a \in CpuMmuEfiAttrs, k \in AttributeMasks,
        b \in Budgets :
       \E r \in {SetMemoryRegionAttributes(Machine(mem, b), Csr,
                                           p * EFI_PAGE_SIZE, n * EFI_PAGE_SIZE, a, k)} :
           /\ mem' = r.mem
           /\ last' = [Record("SetMemoryRegionAttributes", p * EFI_PAGE_SIZE,
                              n * EFI_PAGE_SIZE, a, r, mem, NoQuery, FALSE)
                         EXCEPT !.mask = k]
  /\ calls' = calls + 1
  /\ UNCHANGED <<pgdl, mMmuInited, crmdPg, maxLevel>>

\* The same call once more, right after a successful one.
RepeatSetMemoryRegionAttributes ==
  /\ last.op = "SetMemoryRegionAttributes"
  /\ last.st = EFI_SUCCESS
  /\ \E b \in {0, MaxTables} :
       \E r \in {SetMemoryRegionAttributes(Machine(mem, b), Csr, last.base, last.len,
                                           last.attr, last.mask)} :
           /\ mem' = r.mem
           /\ last' = [Record("RepeatSetMemoryRegionAttributes", last.base, last.len,
                              last.attr, r, mem, NoQuery, FALSE)
                         EXCEPT !.mask = last.mask]
  /\ UNCHANGED <<pgdl, mMmuInited, crmdPg, maxLevel, calls>>

\* By how much a start address or a length misses a page boundary
Offsets == {0, 1}

\* A misaligned request is rejected before the allocator is reached.
CallUpdateRegionMapping ==
  /\ last.op \in {"Boot", "Idle"}
  /\ calls < MaxCalls
  /\ \E p \in Pages, n \in Lengths, k \in UpdateMasks, o \in Offsets \X Offsets :
       \E b \in (IF o = <<0, 0>> THEN Budgets ELSE {MaxTables}) :
         \E r \in {UpdateRegionMapping(Machine(mem, b), Csr, p * EFI_PAGE_SIZE + o[1],
                                       n * EFI_PAGE_SIZE + o[2], k[1], k[2], pgdl,
                                       MmuIsEnabled(Csr))} :
           /\ mem' = r.mem
           /\ last' = [Record("UpdateRegionMapping", p * EFI_PAGE_SIZE + o[1],
                              n * EFI_PAGE_SIZE + o[2], k[1], r, mem, NoQuery, FALSE)
                         EXCEPT !.mask = k[2]]
  /\ calls' = calls + 1
  /\ UNCHANGED <<pgdl, mMmuInited, crmdPg, maxLevel>>

NextCpuMmu ==
  \/ BootMap
  \/ CallSetMemoryRegionAttributes
  \/ RepeatSetMemoryRegionAttributes
  \/ CallUpdateRegionMapping
  \/ Return

SpecCpuMmu == InitCpuMmu /\ [][NextCpuMmu]_vars

---------------------------------------------------------------------------
(* CpuMmuLib called with the root table in PGDL and the page-walk          *)
(* controller (PWCTL0, PWCTL1) programmed for 3, 4 or 5 levels or still at *)
(* zero: PGDL and PWCTL are written one after the other                    *)
(* (PeiCpuMmuLib.c:81 and 152-153), and MmuIsInit reads PGDL only.         *)

InitPwctl ==
  /\ mem = (1 :> ZeroTable)
  /\ pgdl = 1
  /\ mMmuInited = FALSE
  /\ crmdPg = FALSE
  /\ maxLevel \in {0, LEVEL3, LEVEL4, LEVEL5}
  /\ calls = 0
  /\ last = Record("Init", 0, 0, {}, Machine(<<>>, 0), <<>>, NoQuery, FALSE)

NextPwctl ==
  \/ BootMap
  \/ CallSetMemoryRegionAttributes
  \/ Return

SpecPwctl == InitPwctl /\ [][NextPwctl]_vars

---------------------------------------------------------------------------
(* EfiAttributeConverse of either library, applied to every set of the      *)
(* EFI_MEMORY_xx bits it looks at.                                          *)

EfiAttributeBits == {"UC", "WC", "WT", "WB", "UCE", "WP", "RP", "XP", "RO"}

InitConverse ==
  /\ mem = <<>>
  /\ pgdl = 0
  /\ mMmuInited = FALSE
  /\ crmdPg = FALSE
  /\ maxLevel = 0
  /\ calls = 0
  /\ \E EfiAttributes \in SUBSET EfiAttributeBits :
       last = [op |-> "Init", attr |-> EfiAttributes, ret |-> {}]

\* LoongArch64CpuMmuLib
CallEfiAttributeConverse ==
  /\ last.op = "Init"
  /\ last' = [op |-> "EfiAttributeConverse", attr |-> last.attr,
              ret |-> EfiAttributeConverse(last.attr)]
  /\ UNCHANGED <<mem, pgdl, mMmuInited, crmdPg, maxLevel, calls>>

\* CpuMmuLib
CallCpuMmuEfiAttributeConverse ==
  /\ last.op = "Init"
  /\ last' = [op |-> "CpuMmuEfiAttributeConverse", attr |-> last.attr,
              ret |-> CpuMmuEfiAttributeConverse(last.attr)]
  /\ UNCHANGED <<mem, pgdl, mMmuInited, crmdPg, maxLevel, calls>>

NextConverse ==
  \/ CallEfiAttributeConverse
  \/ CallCpuMmuEfiAttributeConverse

SpecConverse == InitConverse /\ [][NextConverse]_vars

---------------------------------------------------------------------------
(* BaseSynchronizationLib, LoongArch64/Synchronization.c:                   *)
(* InternalSyncCompareExchange32 and InternalSyncCompareExchange64, one     *)
(* instruction of the inline assembly per step.  `last` holds the call:     *)
(* Value is the word *Value in memory, Original its content at entry,       *)
(* RetValue the register %0, pc the next instruction.  A store-conditional  *)
(* may fail (the link was lost, e.g. to an interrupt), then the loop        *)
(* repeats.                                                                 *)

SyncValues == 0 .. MaxValue

SyncOps == {"InternalSyncCompareExchange32", "InternalSyncCompareExchange64"}

InitSync ==
  /\ mem = <<>>
  /\ pgdl = 0
  /\ mMmuInited = FALSE
  /\ crmdPg = FALSE
  /\ maxLevel = 0
  /\ calls = 0
  /\ \E f \in SyncOps, v \in SyncValues, c \in SyncValues, e \in SyncValues, r \in SyncValues :
       last = [op |-> f, pc |-> "1", Value |-> v, Original |-> v,
               CompareValue |-> c, ExchangeValue |-> e, RetValue |-> r]

\* 1: ll.w / ll.d %0, %2
LoadLinked ==
  /\ last.op \in SyncOps
  /\ last.pc = "1"
  /\ last' = [last EXCEPT !.RetValue = last.Value, !.pc = "bne"]
  /\ UNCHANGED <<mem, pgdl, mMmuInited, crmdPg, maxLevel, calls>>

\* bne %0, %3, 2f
BranchNotEqual ==
  /\ last.op \in SyncOps
  /\ last.pc = "bne"
  /\ last' = [last EXCEPT !.pc = IF last.RetValue # last.CompareValue THEN "2" ELSE "move"]
  /\ UNCHANGED <<mem, pgdl, mMmuInited, crmdPg, maxLevel, calls>>

\* move %0, %4
Move ==
  /\ last.op \in SyncOps
  /\ last.pc = "move"
  /\ last' = [last EXCEPT !.RetValue = last.ExchangeValue, !.pc = "sc"]
  /\ UNCHANGED <<mem, pgdl, mMmuInited, crmdPg, maxLevel, calls>>

\* sc.w / sc.d %0, %1: the store is done and %0 becomes 1
StoreConditionalDone ==
  /\ last.op \in SyncOps
  /\ last.pc = "sc"
  /\ last' = [last EXCEPT !.Value = last.RetValue, !.RetValue = 1, !.pc = "beqz"]
  /\ UNCHANGED <<mem, pgdl, mMmuInited, crmdPg, maxLevel, calls>>

\* sc.w / sc.d %0, %1: the link was lost, nothing is stored and %0 becomes 0
StoreConditionalLost ==
  /\ last.op \in SyncOps
  /\ last.pc = "sc"
  /\ last' = [last EXCEPT !.RetValue = 0, !.pc = "beqz"]
  /\ UNCHANGED <<mem, pgdl, mMmuInited, crmdPg, maxLevel, calls>>

\* beqz %0, 1b ; b 3f
BranchIfZero ==
  /\ last.op \in SyncOps
  /\ last.pc = "beqz"
  /\ last' = [last EXCEPT !.pc = IF last.RetValue = 0 THEN "1" ELSE "3"]
  /\ UNCHANGED <<mem, pgdl, mMmuInited, crmdPg, maxLevel, calls>>

\* 2: dbar 0
Barrier ==
  /\ last.op \in SyncOps
  /\ last.pc = "2"
  /\ last' = [last EXCEPT !.pc = "3"]
  /\ UNCHANGED <<mem, pgdl, mMmuInited, crmdPg, maxLevel, calls>>

\* 3: return RetValue
ReturnRetValue ==
  /\ last.op \in SyncOps
  /\ last.pc = "3"
  /\ last' = [last EXCEPT !.pc = "return"]
  /\ UNCHANGED <<mem, pgdl, mMmuInited, crmdPg, maxLevel, calls>>

NextSync ==
  \/ LoadLinked
  \/ BranchNotEqual
  \/ Move
  \/ StoreConditionalDone
  \/ StoreConditionalLost
  \/ BranchIfZero
  \/ Barrier
  \/ ReturnRetValue

SpecSync == InitSync /\ [][NextSync]_vars

---------------------------------------------------------------------------
(* InternalSyncCompareExchange16, Synchronization.c lines 31-86.  Widths    *)
(* are scaled: a byte is ByteBits bits, the UINT16 two bytes, the word of   *)
(* ll.w / sc.w four bytes, a register eight bytes.  ll.w sign-extends the   *)
(* word into the register.  `last` holds the call: Address is the pointer   *)
(* Value (its low three bits), Word the aligned word *Ptr32 in memory,      *)
(* Original its content at entry, RetValue and Temp the registers %0, %1.   *)

HalfWidth == 2 * ByteBits

WordWidth == 4 * ByteBits

RegWidth == 8 * ByteBits

Pow2(n) == 2 ^ n

\* the register content after ll.w loaded word w
SignExtend(w) == IF w >= Pow2(WordWidth - 1) THEN w + Pow2(RegWidth) - Pow2(WordWidth) ELSE w

\* Shift = ((UINT64)Value & 0x3) * 8
Shift16(Address) == (Address % 4) * ByteBits

RECURSIVE BitAnd(_, _)
BitAnd(x, y) == IF x = 0 \/ y = 0 THEN 0 ELSE (IF x % 2 = 1 /\ y % 2 = 1 THEN 1 ELSE 0) + 2 * BitAnd(x \div 2, y \div 2)

RECURSIVE BitOr(_, _)
BitOr(x, y) == IF x = 0 THEN y ELSE IF y = 0 THEN x ELSE (IF x % 2 = 1 \/ y % 2 = 1 THEN 1 ELSE 0) + 2 * BitOr(x \div 2, y \div 2)

\* Mask: the ones of a UINT16 (line 47), shifted to the position of the value (line 60)
Mask16(Shift) == (Pow2(HalfWidth) - 1) * Pow2(Shift)

\* ~Mask, a 64-bit operand of the assembly
NotMask16(Shift) == Pow2(RegWidth) - 1 - Mask16(Shift)

\* LocalCompareValue, LocalExchangeValue: masked to 16 bits and shifted (lines 48-59)
Local16(x, Shift) == BitAnd(x, Pow2(HalfWidth) - 1) * Pow2(Shift)

HalfValues == 0 .. (Pow2(HalfWidth) - 1)

\* naturally aligned addresses of a UINT16, modulo the pointer size
HalfAddresses == {0, 2, 4, 6}

InitSync16 ==
  /\ mem = <<>>
  /\ pgdl = 0
  /\ mMmuInited = FALSE
  /\ crmdPg = FALSE
  /\ maxLevel = 0
  /\ calls = 0
  /\ \E a \in HalfAddresses, lo \in HalfValues, hi \in HalfValues, c \in HalfValues, e \in HalfValues :
       last = [op |-> "InternalSyncCompareExchange16", pc |-> "ASSERT", Address |-> a,
               Word |-> hi * Pow2(HalfWidth) + lo, Original |-> hi * Pow2(HalfWidth) + lo,
               CompareValue |-> c, ExchangeValue |-> e, RetValue |-> 0, Temp |-> 0]

\* ASSERT (!((UINT64)Value & (sizeof (Value) - 1))): sizeof of the pointer, 8.
\* The assertion holds, or the build has assertions disabled.
AssertPassed16 ==
  /\ last.op = "InternalSyncCompareExchange16"
  /\ last.pc = "ASSERT"
  /\ last' = [last EXCEPT !.pc = "1"]
  /\ UNCHANGED <<mem, pgdl, mMmuInited, crmdPg, maxLevel, calls>>

\* The assertion fails in a build with assertions enabled: the call never returns
AssertFailed16 ==
  /\ last.op = "InternalSyncCompareExchange16"
  /\ last.pc = "ASSERT"
  /\ BitAnd(last.Address, 8 - 1) # 0
  /\ last' = [last EXCEPT !.pc = "halt"]
  /\ UNCHANGED <<mem, pgdl, mMmuInited, crmdPg, maxLevel, calls>>

\* 1: ll.w %0, %3
LoadLinked16 ==
  /\ last.op = "InternalSyncCompareExchange16"
  /\ last.pc = "1"
  /\ last' = [last EXCEPT !.RetValue = SignExtend(last.Word), !.pc = "and"]
  /\ UNCHANGED <<mem, pgdl, mMmuInited, crmdPg, maxLevel, calls>>

\* and %1, %0, %4 with %4 = ~Mask
And16 ==
  /\ last.op = "InternalSyncCompareExchange16"
  /\ last.pc = "and"
  /\ last' = [last EXCEPT !.Temp = BitAnd(last.RetValue, NotMask16(Shift16(last.Address))), !.pc = "bne"]
  /\ UNCHANGED <<mem, pgdl, mMmuInited, crmdPg, maxLevel, calls>>

\* bne %1, %5, 2f with %5 = LocalCompareValue
BranchNotEqual16 ==
  /\ last.op = "InternalSyncCompareExchange16"
  /\ last.pc = "bne"
  /\ last' = [last EXCEPT !.pc = IF last.Temp # Local16(last.CompareValue, Shift16(last.Address)) THEN "2" ELSE "or"]
  /\ UNCHANGED <<mem, pgdl, mMmuInited, crmdPg, maxLevel, calls>>

\* or %1, %1, %6 with %6 = LocalExchangeValue
Or16 ==
  /\ last.op = "InternalSyncCompareExchange16"
  /\ last.pc = "or"
  /\ last' = [last EXCEPT !.Temp = BitOr(last.Temp, Local16(last.ExchangeValue, Shift16(last.Address))), !.pc = "sc"]
  /\ UNCHANGED <<mem, pgdl, mMmuInited, crmdPg, maxLevel, calls>>

\* sc.w %1, %2: the low word of %1 is stored and %1 becomes 1
StoreConditionalDone16 ==
  /\ last.op = "InternalSyncCompareExchange16"
  /\ last.pc = "sc"
  /\ last' = [last EXCEPT !.Word = last.Temp % Pow2(WordWidth), !.Temp = 1, !.pc = "beqz"]
  /\ UNCHANGED <<mem, pgdl, mMmuInited, crmdPg, maxLevel, calls>>

\* sc.w %1, %2: the link was lost, nothing is stored and %1 becomes 0
StoreConditionalLost16 ==
  /\ last.op = "InternalSyncCompareExchange16"
  /\ last.pc = "sc"
  /\ last' = [last EXCEPT !.Temp = 0, !.pc = "beqz"]
  /\ UNCHANGED <<mem, pgdl, mMmuInited, crmdPg, maxLevel, calls>>

\* beqz %1, 1b ; b 3f
BranchIfZero16 ==
  /\ last.op = "InternalSyncCompareExchange16"
  /\ last.pc = "beqz"
  /\ last' = [last EXCEPT !.pc = IF last.Temp = 0 THEN "1" ELSE "3"]
  /\ UNCHANGED <<mem, pgdl, mMmuInited, crmdPg, maxLevel, calls>>

\* 2: dbar 0
Barrier16 ==
  /\ last.op = "InternalSyncCompareExchange16"
  /\ last.pc = "2"
  /\ last' = [last EXCEPT !.pc = "3"]
  /\ UNCHANGED <<mem, pgdl, mMmuInited, crmdPg, maxLevel, calls>>

\* 3: return (RetValue & Mask) >> Shift, RetValue a UINT32
Return16 ==
  /\ last.op = "InternalSyncCompareExchange16"
  /\ last.pc = "3"
  /\ last' = [last EXCEPT !.RetValue = BitAnd(last.RetValue % Pow2(WordWidth), Mask16(Shift16(last.Address))) \div Pow2(Shift16(last.Address)), !.pc = "return"]
  /\ UNCHANGED <<mem, pgdl, mMmuInited, crmdPg, maxLevel, calls>>

NextSync16 ==
  \/ AssertPassed16
  \/ AssertFailed16
  \/ LoadLinked16
  \/ And16
  \/ BranchNotEqual16
  \/ Or16
  \/ StoreConditionalDone16
  \/ StoreConditionalLost16
  \/ BranchIfZero16
  \/ Barrier16
  \/ Return16

SpecSync16 == InitSync16 /\ [][NextSync16]_vars

---------------------------------------------------------------------------
(* InternalSyncCompareExchange32 / 64 executed by several processors on the *)
(* same word.  Each processor has its own register %0 (RetValue), its own   *)
(* position and its own link bit: ll sets it, a store to the word by any    *)
(* processor clears it, sc stores only while it is set.  Stored and Lost    *)
(* record what a processor's sc instructions did.  `last` holds the word    *)
(* and the processors.                                                      *)

Procs == 1 .. NProcs

AlwaysToMove(RetValue, CompareValue) == "move"

\* bne %0, %3, 2f
BranchTarget(RetValue, CompareValue) == IF RetValue # CompareValue THEN "2" ELSE "move"

InitMp ==
  /\ mem = <<>>
  /\ pgdl = 0
  /\ mMmuInited = FALSE
  /\ crmdPg = FALSE
  /\ maxLevel = 0
  /\ calls = 0
  /\ \E f \in SyncOps, v \in SyncValues, c \in [Procs -> SyncValues], e \in [Procs -> BOOLEAN] :
       last = [op |-> "MpCompareExchange", fn |-> f, Word |-> v, Original |-> v,
               cpu |-> [p \in Procs |->
                          [pc |-> "1", RetValue |-> 0, LLbit |-> FALSE,
                           CompareValue |-> c[p], ExchangeValue |-> IF e[p] THEN p ELSE 0,
                           Stored |-> FALSE, Lost |-> FALSE]]]

\* 1: ll.w / ll.d %0, %2
MpLoadLinked(p) ==
  /\ last.op = "MpCompareExchange"
  /\ last.cpu[p].pc = "1"
  /\ last' = [last EXCEPT !.cpu[p].RetValue = last.Word, !.cpu[p].LLbit = TRUE, !.cpu[p].pc = "bne"]
  /\ UNCHANGED <<mem, pgdl, mMmuInited, crmdPg, maxLevel, calls>>

\* bne %0, %3, 2f
MpBranchNotEqual(p) ==
  /\ last.op = "MpCompareExchange"
  /\ last.cpu[p].pc = "bne"
  /\ last' = [last EXCEPT !.cpu[p].pc = BranchTarget(last.cpu[p].RetValue, last.cpu[p].CompareValue)]
  /\ UNCHANGED <<mem, pgdl, mMmuInited, crmdPg, maxLevel, calls>>

\* move %0, %4
MpMove(p) ==
  /\ last.op = "MpCompareExchange"
  /\ last.cpu[p].pc = "move"
  /\ last' = [last EXCEPT !.cpu[p].RetValue = last.cpu[p].ExchangeValue, !.cpu[p].pc = "sc"]
  /\ UNCHANGED <<mem, pgdl, mMmuInited, crmdPg, maxLevel, calls>>

\* sc.w / sc.d %0, %1 with the link held: the store is done, every link on the word is lost
MpStoreConditionalDone(p) ==
  /\ last.op = "MpCompareExchange"
  /\ last.cpu[p].pc = "sc"
  /\ last.cpu[p].LLbit
  /\ last' = [last EXCEPT !.Word = last.cpu[p].RetValue,
                          !.cpu = [q \in Procs |->
                                     IF q = p
                                       THEN [last.cpu[p] EXCEPT !.RetValue = 1, !.LLbit = FALSE,
                                                                !.Stored = TRUE, !.pc = "beqz"]
                                       ELSE [last.cpu[q] EXCEPT !.LLbit = FALSE]]]
  /\ UNCHANGED <<mem, pgdl, mMmuInited, crmdPg, maxLevel, calls>>

\* sc.w / sc.d %0, %1 with the link lost: nothing is stored and %0 becomes 0
MpStoreConditionalLost(p) ==
  /\ last.op = "MpCompareExchange"
  /\ last.cpu[p].pc = "sc"
  /\ ~last.cpu[p].LLbit
  /\ last' = [last EXCEPT !.cpu[p].RetValue = 0, !.cpu[p].Lost = TRUE, !.cpu[p].pc = "beqz"]
  /\ UNCHANGED <<mem, pgdl, mMmuInited, crmdPg, maxLevel, calls>>

\* beqz %0, 1b ; b 3f
MpBranchIfZero(p) ==
  /\ last.op = "MpCompareExchange"
  /\ last.cpu[p].pc = "beqz"
  /\ last' = [last EXCEPT !.cpu[p].pc = IF last.cpu[p].RetValue = 0 THEN "1" ELSE "3"]
  /\ UNCHANGED <<mem, pgdl, mMmuInited, crmdPg, maxLevel, calls>>

\* 2: dbar 0
MpBarrier(p) ==
  /\ last.op = "MpCompareExchange"
  /\ last.cpu[p].pc = "2"
  /\ last' = [last EXCEPT !.cpu[p].pc = "3"]
  /\ UNCHANGED <<mem, pgdl, mMmuInited, crmdPg, maxLevel, calls>>

\* 3: return RetValue
MpReturn(p) ==
  /\ last.op = "MpCompareExchange"
  /\ last.cpu[p].pc = "3"
  /\ last' = [last EXCEPT !.cpu[p].pc = "return"]
  /\ UNCHANGED <<mem, pgdl, mMmuInited, crmdPg, maxLevel, calls>>

MpStep(p) ==
  \/ MpLoadLinked(p)
  \/ MpBranchNotEqual(p)
  \/ MpMove(p)
  \/ MpStoreConditionalDone(p)
  \/ MpStoreConditionalLost(p)
  \/ MpBranchIfZero(p)
  \/ MpBarrier(p)
  \/ MpReturn(p)

NextMp ==
  \/ \E p \in Procs : MpLoadLinked(p)
  \/ \E p \in Procs : MpBranchNotEqual(p)
  \/ \E p \in Procs : MpMove(p)
  \/ \E p \in Procs : MpStoreConditionalDone(p)
  \/ \E p \in Procs : MpStoreConditionalLost(p)
  \/ \E p \in Procs : MpBranchIfZero(p)
  \/ \E p \in Procs : MpBarrier(p)
  \/ \E p \in Procs : MpReturn(p)

\* every processor keeps executing its instructions
SpecMp == InitMp /\ [][NextMp]_vars /\ \A p \in Procs : WF_vars(MpStep(p))

---------------------------------------------------------------------------
(* InternalSyncIncrement and InternalSyncDecrement executed by several      *)
(* processors on the same UINT32 (WordWidth bits here).  Delta is the       *)
(* operand 1 or -1 of amadd.w.  AtCall is the word when the call was        *)
(* entered, Disturbed records a write of another processor during the call. *)

WordValues == 0 .. (Pow2(WordWidth) - 1)

AmAddSaturating(Word, Delta) == IF Word + Delta \in WordValues THEN Word + Delta ELSE Word

\* the word after amadd.w: 32-bit addition
AmAdd(Word, Delta) == (Word + Delta + Pow2(WordWidth)) % Pow2(WordWidth)

InitCounter ==
  /\ mem = <<>>
  /\ pgdl = 0
  /\ mMmuInited = FALSE
  /\ crmdPg = FALSE
  /\ maxLevel = 0
  /\ calls = 0
  /\ \E v \in WordValues, d \in [Procs -> {1, -1}] :
       last = [op |-> "MpCounter", Word |-> v, Original |-> v,
               cpu |-> [p \in Procs |->
                          [pc |-> "idle", Delta |-> d[p], Temp |-> 0, AtCall |-> 0, Ret |-> 0,
                           Disturbed |-> FALSE]]]

\* InternalSyncIncrement (Value) or InternalSyncDecrement (Value) is entered
CounterCall(p) ==
  /\ last.op = "MpCounter"
  /\ last.cpu[p].pc = "idle"
  /\ last' = [last EXCEPT !.cpu[p].AtCall = last.Word, !.cpu[p].pc = "read"]
  /\ UNCHANGED <<mem, pgdl, mMmuInited, crmdPg, maxLevel, calls>>

\* UINT32 Temp = *Value
CounterRead(p) ==
  /\ last.op = "MpCounter"
  /\ last.cpu[p].pc = "read"
  /\ last' = [last EXCEPT !.cpu[p].Temp = last.Word, !.cpu[p].pc = "amadd"]
  /\ UNCHANGED <<mem, pgdl, mMmuInited, crmdPg, maxLevel, calls>>

\* dbar 0 ; amadd.w %1, %2, %0: one indivisible addition, %1 receives the old word
CounterAmAdd(p) ==
  /\ last.op = "MpCounter"
  /\ last.cpu[p].pc = "amadd"
  /\ last' = [last EXCEPT !.Word = AmAdd(last.Word, last.cpu[p].Delta),
                          !.cpu = [q \in Procs |->
                                     IF q = p
                                       THEN [last.cpu[p] EXCEPT !.Temp = last.Word, !.pc = "ret"]
                                       ELSE [last.cpu[q] EXCEPT
                                               !.Disturbed = @ \/ last.cpu[q].pc \in {"read", "amadd", "ret"}]]]
  /\ UNCHANGED <<mem, pgdl, mMmuInited, crmdPg, maxLevel, calls>>

\* return *Value
CounterReturn(p) ==
  /\ last.op = "MpCounter"
  /\ last.cpu[p].pc = "ret"
  /\ last' = [last EXCEPT !.cpu[p].Ret = last.Word, !.cpu[p].pc = "return"]
  /\ UNCHANGED <<mem, pgdl, mMmuInited, crmdPg, maxLevel, calls>>

NextCounter ==
  \/ \E p \in Procs : CounterCall(p)
  \/ \E p \in Procs : CounterRead(p)
  \/ \E p \in Procs : CounterAmAdd(p)
  \/ \E p \in Procs : CounterReturn(p)

SpecCounter == InitCounter /\ [][NextCounter]_vars

---------------------------------------------------------------------------
(* The argument checks of the two libraries: either library from its start, *)
(* ConfigureMemoryManagementUint of the one, UpdateRegionMapping of the     *)
(* other.                                                                   *)

InitArguments == Init \/ InitCpuMmu

NextArguments ==
  \/ CallConfigure
  \/ BootMap
  \/ CallUpdateRegionMapping
  \/ Return

SpecArguments == InitArguments /\ [][NextArguments]_vars

---------------------------------------------------------------------------
(* What the tables map, read the way the page walker reads them *)

Cell(m, t, i) == IF t \in DOMAIN m /\ i \in TableIndex THEN m[t][i] ELSE INVALID_PAGE
NoLeaf == [kind |-> "none", attr |-> {}]
Failed(log) == \E i \in DOMAIN log : log[i][1] = "nomem"
PagesOf(base, len) == {base + k * EFI_PAGE_SIZE : k \in 0 .. (len \div EFI_PAGE_SIZE - 1)}

\* LoongArch64CpuMmuLib: the leaf that maps Address, with its attribute bits
LeafA(m, root, Address) ==
  LET g == Cell(m, root, PGD_INDEX(Address))
      u == Cell(m, g.ppn, PUD_INDEX(Address))
      d == Cell(m, u.ppn, PMD_INDEX(Address))
      e == Cell(m, d.ppn, PTE_INDEX(Address))
  IN  IF g = INVALID_PAGE THEN NoLeaf
      ELSE IF u = INVALID_PAGE THEN NoLeaf
      ELSE IF d = INVALID_PAGE THEN NoLeaf
      ELSE IF IS_HUGE_PAGE(d) THEN [kind |-> "huge", attr |-> GetHugePageAttributes(d)]
      ELSE IF e = INVALID_PAGE THEN NoLeaf
      ELSE [kind |-> "page", attr |-> e.bits]

Query(base, end) ==
  GetMemoryRegionAttribute(Machine(mem, 0), mMmuInited, pgdl, base, end, 0)

\* C1: after SetMemoryAttributes (base, length, attributes), every allocation
\* having succeeded, the query of [base, base + length) with a length of 0 coming
\* in returns success, the converted attributes and a length >= length.
C1_RoundTrip ==
  (/\ last.op = "SetMemoryAttributes"
   /\ MmuIsInit(mMmuInited, pgdl)
   /\ ~Failed(last.log))
  => /\ Query(last.base, last.base + last.len).st = EFI_SUCCESS
     /\ Query(last.base, last.base + last.len).attr = EfiAttributeConverse(last.attr)
     /\ Query(last.base, last.base + last.len).len >= last.len

\* C2: when CpuSetMemoryAttributes returns EFI_SUCCESS having found the range
\* "already equal" by its query, every page of the range is mapped with the
\* converted attributes.
C2_Postcondition ==
  (/\ last.op = "CpuSetMemoryAttributes"
   /\ last.base % EFI_PAGE_SIZE = 0
   /\ last.len % EFI_PAGE_SIZE = 0
   /\ last.len # 0
   /\ last.st = EFI_SUCCESS
   /\ last.shortcut)
  => \A a \in PagesOf(last.base, last.len) :
       /\ LeafA(mem, pgdl, a).kind # "none"
       /\ LeafA(mem, pgdl, a).attr = EfiAttributeConverse(last.attr)

\* C5: a SetMemoryAttributes call during which a page-table allocation failed
\* does not return success.
C5_ExhaustionSurfaced ==
  (last.op = "SetMemoryAttributes" /\ Failed(last.log)) => last.st # EFI_SUCCESS

\* The bytes of the run of page leaves from a on, below end, whose bits are attr.
RECURSIVE RunBytes(_, _, _)
RunBytes(a, end, attr) ==
  IF a >= end \/ LeafA(mem, pgdl, a).kind # "page" \/ LeafA(mem, pgdl, a).attr # attr
  THEN 0
  ELSE EFI_PAGE_SIZE + RunBytes(a + EFI_PAGE_SIZE, end, attr)

\* C6: where the range queried holds no huge page, the length
\* GetMemoryRegionAttribute reports is the length of the maximal run of leaves
\* from base on that carry the attribute bits of the leaf at base, each leaf
\* counted once, nothing counted after a mismatch, an unmapped page or end.
C6_RunLength ==
  (/\ last.op = "GetMemoryRegionAttribute"
   /\ last.q.st = EFI_SUCCESS
   /\ LeafA(mem, pgdl, last.base).kind = "page"
   /\ \A a \in PagesOf(last.base, last.len) : LeafA(mem, pgdl, a).kind # "huge")
  => last.q.len = RunBytes(last.base, last.base + last.len,
                           LeafA(mem, pgdl, last.base).attr)

\* C7: with the MMU initialised, GetMemoryRegionAttribute returns EFI_NOT_FOUND
\* when base has no valid leaf, at whichever level the walk ends.
C7_NotFound ==
  (/\ last.op = "GetMemoryRegionAttribute"
   /\ MmuIsInit(mMmuInited, pgdl)
   /\ LeafA(mem, pgdl, last.base).kind = "none")
  => last.q.st = EFI_NOT_FOUND

\* C8: a proper prefix of length P of a huge page with attributes A has been
\* remapped with other attributes, every allocation having succeeded: the query
\* from base + P to the end of the huge page reports A and HUGE_PAGE_SIZE - P.
C8_SplitThenQuery ==
  (/\ last.op = "SetMemoryAttributes"
   /\ ~Failed(last.log)
   /\ last.base % HUGE_PAGE_SIZE = 0
   /\ last.len < HUGE_PAGE_SIZE
   /\ LeafA(last.pre, pgdl, last.base).kind = "huge"
   /\ LeafA(last.pre, pgdl, last.base).attr # EfiAttributeConverse(last.attr))
  => /\ Query(last.base + last.len, last.base + HUGE_PAGE_SIZE).st = EFI_SUCCESS
     /\ Query(last.base + last.len, last.base + HUGE_PAGE_SIZE).attr
          = LeafA(last.pre, pgdl, last.base).attr
     /\ Query(last.base + last.len, last.base + HUGE_PAGE_SIZE).len
          = HUGE_PAGE_SIZE - last.len

---------------------------------------------------------------------------
(* CpuMmuLib: the translation of an address *)

Unmapped == [kind |-> "none", page |-> 0, bits |-> {}, start |-> 0, size |-> 0]

RECURSIVE Walk(_, _, _, _, _)
Walk(m, Levels, Table, Level, Address) ==
  LET Size == 2 ^ ((Levels - Level - 1) * EntryBits + PageShift)
      e    == Cell(m, Table, (Address \div Size) % (2 ^ EntryBits))
  IN  IF e = INVALID_PAGE THEN Unmapped
      ELSE IF Level = Levels - 1
      THEN [kind |-> "page", page |-> e.ppn, bits |-> e.bits,
            start |-> AlignDown(Address, Size), size |-> Size]
      ELSE IF PAGE_HUGE \subseteq e.bits /\ HasHGlobal(e)
      THEN [kind |-> "block",
            page |-> (e.ppn - 1) + (Address % Size) \div EFI_PAGE_SIZE,
            bits |-> e.bits, start |-> AlignDown(Address, Size), size |-> Size]
      ELSE Walk(m, Levels, e.ppn, Level + 1, Address)

Translate(m, Address) == Walk(m, maxLevel, pgdl, 0, Address)

IsUpdate == last.op \in {"SetMemoryRegionAttributes", "UpdateRegionMapping"}
SetMask == IF last.op = "UpdateRegionMapping" THEN last.attr
           ELSE CpuMmuEfiAttributeConverse(last.attr)
ClearMask == IF last.op = "UpdateRegionMapping" THEN last.mask ELSE PTE_ATTRIBUTES_MASK
InsideOneBlock ==
  LET b == Translate(last.pre, last.base)
  IN  /\ b.kind = "block"
      /\ last.base + last.len <= b.start + b.size
      /\ last.len < b.size

\* C3: a successful update of a sub-range strictly inside one block leaves every
\* page of the block outside the sub-range with the physical page and the bits it
\* had, and every page inside with its own address and the new attributes.
C3_Splitting ==
  (IsUpdate /\ last.st = EFI_SUCCESS /\ InsideOneBlock)
  => LET b == Translate(last.pre, last.base)
     IN  \A a \in PagesOf(b.start, b.size) :
           IF a \in PagesOf(last.base, last.len)
           THEN /\ Translate(mem, a).kind # "none"
                /\ Translate(mem, a).page = a \div EFI_PAGE_SIZE
                /\ Translate(mem, a).bits
                     = ((b.bits \ ClearMask) \cup SetMask) \cup PAGE_VALID \cup PAGE_GLOBAL
           ELSE /\ Translate(mem, a).kind # "none"
                /\ Translate(mem, a).page = Translate(last.pre, a).page
                /\ Translate(mem, a).bits = Translate(last.pre, a).bits

\* A block was split: a table was allocated for it and a page outside the
\* sub-range is now mapped by an entry of a deeper level.
C3_Witness ==
  /\ IsUpdate /\ last.st = EFI_SUCCESS /\ InsideOneBlock
  /\ \E i \in DOMAIN last.log : last.log[i][1] = "alloc"
  /\ \E a \in PagesOf(Translate(last.pre, last.base).start,
                      Translate(last.pre, last.base).size) :
       /\ a \notin PagesOf(last.base, last.len)
       /\ Translate(mem, a).size < Translate(last.pre, a).size

\* C4: an update of a region that had no page mapped, failing with
\* EFI_OUT_OF_RESOURCES, leaves no page of the region mapped.
C4_Rollback ==
  (/\ IsUpdate
   /\ last.st = EFI_OUT_OF_RESOURCES
   /\ \A a \in PagesOf(last.base, last.len) : Translate(last.pre, a).kind = "none")
  => \A a \in PagesOf(last.base, last.len) : Translate(mem, a).kind = "none"

\* C9: SetMemoryRegionAttributes called again with the arguments of a call that
\* has just succeeded succeeds, allocates and frees no page and changes no entry.
C9_Idempotent ==
  (last.op = "RepeatSetMemoryRegionAttributes")
  => /\ last.st = EFI_SUCCESS
     /\ mem = last.pre
     /\ \A i \in DOMAIN last.log : last.log[i][1] \notin {"alloc", "nomem", "free"}

\* The second call wrote entries of tables the first call had allocated.
C9_Witness ==
  /\ last.op = "RepeatSetMemoryRegionAttributes"
  /\ \E i \in DOMAIN last.log : last.log[i][1] = "store" /\ last.log[i][2] # pgdl
  /\ Cardinality(DOMAIN mem) > 2

---------------------------------------------------------------------------
(* Requests with invalid arguments *)

Misaligned(x) == x % EFI_PAGE_SIZE # 0

\* C11: UpdateRegionMapping with a RegionStart or a RegionLength that is not
\* page-aligned, and ConfigureMemoryManagementUint with a NULL MemoryTable,
\* return EFI_INVALID_PARAMETER and have allocated no page, written no table
\* entry and no configuration register, and invalidated nothing.
C11_InvalidArgument ==
  /\ (/\ last.op = "UpdateRegionMapping"
      /\ (Misaligned(last.base) \/ Misaligned(last.len)))
     => /\ last.st = EFI_INVALID_PARAMETER
        /\ last.log = <<>>
        /\ mem = last.pre
  /\ (last.op = "Configure" /\ last.base = NULL)
     => /\ last.st = EFI_INVALID_PARAMETER
        /\ last.log = <<>>
        /\ mem = last.pre
        /\ pgdl = 0
        /\ maxLevel = 0

\* A misaligned length was refused on a tree that maps something.
C11_Witness ==
  /\ last.op = "UpdateRegionMapping"
  /\ ~Misaligned(last.base)
  /\ Misaligned(last.len)
  /\ last.st = EFI_INVALID_PARAMETER
  /\ \E a \in Pages : Translate(mem, a * EFI_PAGE_SIZE) # Unmapped

\* C12: while translation is not configured (CSR PGDL reads zero and
\* MmuInitialize has recorded nothing), every table operation returns
\* EFI_UNSUPPORTED and touches no table.
C12_UnsupportedWhenUnconfigured ==
  (/\ last.op \in {"SetMemoryRegionAttributes", "SetMemoryAttributes",
                   "GetMemoryRegionAttribute", "SetMemoryRegionNoExec",
                   "CpuSetMemoryAttributes"}
   /\ pgdl = 0
   /\ ~mMmuInited)
  => /\ last.st = EFI_UNSUPPORTED
     /\ last.log = <<>>

\* C13: on an initialised MMU, CpuSetMemoryAttributes with a BaseAddress or a
\* Length that is not a multiple of the page size returns EFI_UNSUPPORTED, has
\* changed no entry,
\* allocated and invalidated nothing, and its loops have ended inside their
\* tables.
C13_GranularityRejected ==
  (/\ last.op = "CpuSetMemoryAttributes"
   /\ MmuIsInit(mMmuInited, pgdl)
   /\ (Misaligned(last.base) \/ Misaligned(last.len)))
  => /\ last.st = EFI_UNSUPPORTED
     /\ last.log = <<>>
     /\ mem = last.pre
     /\ ~last.wild

\* C14: on an initialised MMU, CpuSetMemoryAttributes with a page-aligned
\* BaseAddress and a Length of zero returns EFI_INVALID_PARAMETER and has
\* changed no table entry.
C14_ZeroLength ==
  (/\ last.op = "CpuSetMemoryAttributes"
   /\ MmuIsInit(mMmuInited, pgdl)
   /\ ~Misaligned(last.base)
   /\ last.len = 0)
  => /\ last.st = EFI_INVALID_PARAMETER
     /\ mem = last.pre

---------------------------------------------------------------------------
(* Where CpuMmuLib places blocks *)

\* The span one entry of a table of level K maps
BlockSize(K) == 2 ^ ((maxLevel - K - 1) * EntryBits + PageShift)

\* The block of level K that holds Address lies inside the region of the call.
BlockInRegion(K, Address) ==
  /\ AlignDown(Address, BlockSize(K)) >= last.base
  /\ AlignDown(Address, BlockSize(K)) + BlockSize(K) <= last.base + last.len

\* In table memory m the walk of Address finds table pointers at the levels
\* Level .. K.
RECURSIVE TablePath(_, _, _, _, _)
TablePath(m, Table, Level, K, Address) ==
  LET e == Cell(m, Table, (Address \div BlockSize(Level)) % (2 ^ EntryBits))
  IN  /\ IsTableEntry(Csr, e, Level)
      /\ (Level = K \/ TablePath(m, e.ppn, Level + 1, K, Address))

\* The boot-time mapping is a SetMemoryRegionAttributes call as well.
IsMapping == IsUpdate \/ (last.op = "Boot" /\ last.len > 0)

\* C15: after a successful call, at every level K other than the
\* second-to-last: a block of level K that lies inside the region, that no
\* block of the level above (where blocks are allowed) inside the region
\* holds, and whose entry was not a table pointer before the call, is mapped
\* by one leaf entry of level K.
C15_BlockPlacement ==
  (IsMapping /\ last.st = EFI_SUCCESS)
  => \A K \in 0 .. (maxLevel - 1) : \A a \in PagesOf(last.base, last.len) :
       (/\ K # maxLevel - 2
        /\ BlockInRegion(K, a)
        /\ (K = 0 \/ K - 1 = maxLevel - 2 \/ ~BlockInRegion(K - 1, a))
        /\ ~TablePath(last.pre, pgdl, 0, K, a))
       => Translate(mem, a).size = BlockSize(K)

\* The tables of level K reachable from the root of table memory m
RECURSIVE TablesAt(_, _)
TablesAt(m, K) ==
  IF K = 0 THEN {pgdl}
  ELSE {Cell(m, t, i).ppn : <<t, i>> \in
          {x \in TablesAt(m, K - 1) \X TableIndex :
             IsTableEntry(Csr, Cell(m, x[1], x[2]), K - 1)}}

\* C16: in every table reachable from the root, a non-empty entry of the last
\* level is a valid page leaf, and no entry of the second-to-last level is a
\* block (huge) entry.
C16_LevelRoles ==
  (last.op # "Init")
  => /\ \A t \in TablesAt(mem, maxLevel - 1) : \A i \in TableIndex :
          Cell(mem, t, i) # INVALID_PAGE
            => /\ PAGE_VALID \subseteq Cell(mem, t, i).bits
               /\ IsBlockEntry(Csr, Cell(mem, t, i), maxLevel - 1)
     /\ \A t \in TablesAt(mem, maxLevel - 2) : \A i \in TableIndex :
          ~IsValidHugePage(Cell(mem, t, i))

---------------------------------------------------------------------------
(* The attribute conversion *)

Converted == last.op \in {"EfiAttributeConverse", "CpuMmuEfiAttributeConverse"}

\* C17: for every attribute set, in either library: the result has the no-read
\* bit if the set has RP, the no-execute bit if it has XP, the dirty bit clear
\* if it has RO or WP and set otherwise, and the valid, global and
\* kernel-privilege bits always.
C17_Permissions ==
  Converted
  => /\ ("RP" \in last.attr => PAGE_NO_READ \subseteq last.ret)
     /\ ("XP" \in last.attr => PAGE_NO_EXEC \subseteq last.ret)
     /\ (("RO" \in last.attr \/ "WP" \in last.attr) <=> PAGE_DIRTY \cap last.ret = {})
     /\ (PAGE_VALID \cup PAGE_GLOBAL \cup PLV_KERNEL) \subseteq last.ret

\* C18: in either library UC gives the strongly-ordered uncached code, WC the
\* weakly-ordered uncached code, WT and WB the coherent cached code, and every
\* other input the coherent cached code with the dirty bit set (dirty unless
\* the input asks for write protection).
C18_CachePolicy ==
  Converted
  => LET Cache == last.attr \cap {"UC", "WC", "WT", "WB", "UCE"}
         Code  == last.ret \cap CACHE_MASK
     IN  CASE Cache = {"UC"} -> Code = CACHE_SUC
           [] Cache = {"WC"} -> Code = CACHE_WUC
           [] Cache \in {{"WT"}, {"WB"}} -> Code = CACHE_CC
           [] OTHER -> /\ Code = CACHE_CC
                       /\ (last.attr \cap {"RO", "WP"} = {}
                             => PAGE_DIRTY \subseteq last.ret)

---------------------------------------------------------------------------
(* SetMemoryRegionNoExec *)

AllPages == {k * EFI_PAGE_SIZE : k \in 0 .. (2 ^ MAX_VA_BITS \div EFI_PAGE_SIZE - 1)}
Rounded(Length) == EFI_PAGES_TO_SIZE(EFI_SIZE_TO_PAGES(Length))

\* C19: on an initialised MMU, with every allocation succeeding,
\* SetMemoryRegionNoExec sets the no-execute bit of every page of the rounded
\* range; a page of the range that was mapped keeps its cache policy, its
\* no-read bit and its dirty bit; a page outside the range keeps its mapping.
C19_NoExecOnly ==
  (/\ last.op = "SetMemoryRegionNoExec"
   /\ MmuIsInit(mMmuInited, pgdl)
   /\ ~Failed(last.log))
  => \A a \in AllPages :
       IF a \in PagesOf(last.base, Rounded(last.len))
       THEN /\ PAGE_NO_EXEC \subseteq LeafA(mem, pgdl, a).attr
            /\ LeafA(last.pre, pgdl, a).kind # "none"
                 => LeafA(mem, pgdl, a).attr \cap (CACHE_MASK \cup PAGE_NO_READ \cup PAGE_DIRTY)
                      = LeafA(last.pre, pgdl, a).attr
                          \cap (CACHE_MASK \cup PAGE_NO_READ \cup PAGE_DIRTY)
       ELSE /\ LeafA(mem, pgdl, a).attr = LeafA(last.pre, pgdl, a).attr
            /\ (LeafA(mem, pgdl, a).kind = "none") = (LeafA(last.pre, pgdl, a).kind = "none")


(* C20: a call of InternalSyncCompareExchange32 or                          *)
(* InternalSyncCompareExchange64 returns the content *Value had at entry,   *)
(* and leaves *Value = ExchangeValue if that content was CompareValue,      *)
(* *Value unchanged otherwise.                                              *)
C20_CompareExchange ==
  (last.op \in SyncOps /\ last.pc = "return")
    => /\ last.RetValue = last.Original
       /\ last.Value = IF last.Original = last.CompareValue
                         THEN last.ExchangeValue
                         ELSE last.Original


\* the UINT16 at Address inside word w
HalfAt(w, Address) == (w \div Pow2(Shift16(Address))) % Pow2(HalfWidth)

\* the other UINT16 of word w
OtherHalf(w, Address) == (w \div Pow2(WordWidth - HalfWidth - Shift16(Address))) % Pow2(HalfWidth)

(* C21: a call of InternalSyncCompareExchange16, at either position of the  *)
(* value in its aligned word, returns the value the UINT16 had at entry,    *)
(* leaves it equal to ExchangeValue if that value was CompareValue and      *)
(* unchanged otherwise, and leaves the other half of the word unchanged.    *)
C21_CompareExchange16 ==
  (last.op = "InternalSyncCompareExchange16" /\ last.pc = "return")
    => /\ last.RetValue = HalfAt(last.Original, last.Address)
       /\ HalfAt(last.Word, last.Address)
            = IF HalfAt(last.Original, last.Address) = last.CompareValue
                THEN last.ExchangeValue
                ELSE HalfAt(last.Original, last.Address)
       /\ OtherHalf(last.Word, last.Address) = OtherHalf(last.Original, last.Address)


\* every processor has returned from its call
MpReturned == \A p \in Procs : last.cpu[p].pc = "return"

\* the word is 0 and every processor tries to replace 0 by its own number
MpRace == last.Original = 0 /\ \A p \in Procs : last.cpu[p].CompareValue = 0 /\ last.cpu[p].ExchangeValue = p

\* a store is about to be done only while the word still holds CompareValue,
\* and a processor stores at most once
MpIndivisible ==
  \A p \in Procs :
    /\ (last.cpu[p].LLbit /\ last.cpu[p].pc \in {"move", "sc"}) => last.Word = last.cpu[p].CompareValue
    /\ (last.cpu[p].Stored /\ last.cpu[p].pc \in {"1", "bne", "move", "sc"}) => FALSE

(* C22: processors executing InternalSyncCompareExchange32 (or 64) on the   *)
(* same word: every store happens while the word holds the storing          *)
(* processor's CompareValue; when the word is 0 and every processor tries   *)
(* to replace 0 by its own non-zero number, exactly one store takes effect  *)
(* and the word ends equal to that processor's number; and under fair       *)
(* scheduling every call returns.                                           *)
C22_MpSafe ==
  /\ [](last.op = "MpCompareExchange" => MpIndivisible)
  /\ []((last.op = "MpCompareExchange" /\ MpRace /\ MpReturned)
          => \E p \in Procs :
               /\ last.cpu[p].Stored
               /\ last.Word = p
               /\ \A q \in Procs \ {p} : ~last.cpu[q].Stored)
  /\ <>(last.op = "MpCompareExchange" /\ MpReturned)

\* the race has been run, and a processor lost its link to the other's store and retried
C22_Witness ==
  /\ last.op = "MpCompareExchange"
  /\ MpRace
  /\ MpReturned
  /\ \E p \in Procs : last.cpu[p].Lost /\ ~last.cpu[p].Stored


\* the sum of the operands of all the calls
RECURSIVE SumDelta(_)
SumDelta(P) == IF P = {} THEN 0 ELSE LET p == CHOOSE q \in P : TRUE IN last.cpu[p].Delta + SumDelta(P \ {p})

(* C23: when all the concurrent InternalSyncIncrement and                   *)
(* InternalSyncDecrement calls have returned, the word is the initial value *)
(* plus the increments minus the decrements, modulo the word size; and a    *)
(* call during which no other processor wrote the word returns the word it  *)
(* found plus (minus) one, modulo the word size.                            *)
C23_Counters ==
  last.op = "MpCounter"
    => /\ (\A p \in Procs : last.cpu[p].pc = "return")
            => last.Word = (last.Original + SumDelta(Procs) + NProcs * Pow2(WordWidth)) % Pow2(WordWidth)
       /\ \A p \in Procs :
            (last.cpu[p].pc = "return" /\ ~last.cpu[p].Disturbed)
              => last.cpu[p].Ret = (last.cpu[p].AtCall + last.cpu[p].Delta + Pow2(WordWidth)) % Pow2(WordWidth)

\* every call has returned, the word wrapped around, one call was entered while
\* another was in progress and one ran undisturbed
C23_Witness ==
  /\ last.op = "MpCounter"
  /\ \A p \in Procs : last.cpu[p].pc = "return"
  /\ last.Original + SumDelta(Procs) \notin WordValues
  /\ \E p \in Procs : last.cpu[p].Disturbed
  /\ \E p \in Procs : ~last.cpu[p].Disturbed


(* C24: ConfigureMemoryManagementUint consumes the descriptors before the   *)
(* zero-length end descriptor and nothing else, whatever count it is given: *)
(* the call does what a call given exactly the number of descriptors before *)
(* the end descriptor does (same allocations, stores, invalidations and     *)
(* status).                                                                 *)
C24_SentinelStops ==
  (last.op = "Configure" /\ last.base # NULL)
    => \E b \in {0, 1, MaxTables}, fits \in BOOLEAN :
         \E r \in {ConfigureMemoryManagementUint(Machine(last.pre, b), last.base,
                                                Len(BootMaps[last.base]), fits)} :
           /\ r.log = last.log
           /\ r.st = last.st
           /\ r.wild = last.wild


---------------------------------------------------------------------------
(* CpuMmuLib: the table memory at every step of a call *)

\* table memory m after the first k steps of log
RECURSIVE Replay(_, _, _)
Replay(m, log, k) ==
  IF k = 0 THEN m
  ELSE LET p == Replay(m, log, k - 1)
           e == log[k]
       IN  CASE e[1] = "store" -> [p EXCEPT ![e[2]][e[3]] = e[4]]
             [] e[1] = "alloc" -> [q \in DOMAIN p \cup {e[2]} |-> IF q = e[2] THEN ZeroTable ELSE p[q]]
             [] e[1] = "free"  -> [q \in DOMAIN p \ {e[2]} |-> p[q]]
             [] OTHER          -> p

\* the tables a walk from the root can reach in table memory m
Reachable(m) == UNION {TablesAt(m, K) : K \in 0 .. (maxLevel - 1)}

\* step k of log writes table T, which the call allocated before step k
\* (and did not free since)
WritesNewTable(log, k, T) ==
  /\ log[k][1] = "store"
  /\ log[k][2] = T
  /\ \E i \in 1 .. (k - 1) :
       /\ log[i] = <<"alloc", T>>
       /\ \A j \in (i + 1) .. (k - 1) : log[j] # <<"free", T>>

\* the pages inside the span of the root table
SpanPages == {a \in AllPages : a < BlockSize(0) * 2 ^ EntryBits}

\* the attribute bits the call is to give the leaf of page a
NewBits(a) ==
  IF a \in PagesOf(last.base, last.len)
  THEN ((Translate(last.pre, a).bits \ ClearMask) \cup SetMask) \cup PAGE_VALID \cup PAGE_GLOBAL
  ELSE Translate(last.pre, a).bits

(* C26: at every step of an update of a live table, a walk from the root    *)
(* finds for every page that was mapped before the call a leaf with the     *)
(* attribute bits it had or the bits the call is to give it; and a table    *)
(* allocated by the call is not reachable from the root when one of its     *)
(* entries is written.                                                      *)
C26_NoHalfBuilt ==
  (IsUpdate /\ crmdPg)
  => \A k \in 0 .. Len(last.log) :
       /\ \A a \in SpanPages :
            Translate(last.pre, a).kind # "none"
              => /\ Translate(Replay(last.pre, last.log, k), a).kind # "none"
                 /\ Translate(Replay(last.pre, last.log, k), a).bits
                      \in {Translate(last.pre, a).bits, NewBits(a)}
       /\ \A T \in 1 .. MaxTables :
            (k > 0 /\ WritesNewTable(last.log, k, T))
              => T \notin Reachable(Replay(last.pre, last.log, k - 1))

\* a block of a live table was split: a table was allocated, written and then
\* wired into a table reachable from the root, and pages of the block outside
\* the request kept their mapping
C26_Witness ==
  /\ IsUpdate /\ crmdPg /\ last.st = EFI_SUCCESS /\ InsideOneBlock
  /\ \E k \in DOMAIN last.log, T \in 1 .. MaxTables :
       /\ WritesNewTable(last.log, k, T)
       /\ T \in Reachable(mem)


(* C27: while SetMemoryAttributes of LoongArch64CpuMmuLib works on a        *)
(* request, every page that was mapped by a huge page before the call has   *)
(* a leaf reachable from the root at every step of the call (no allocation  *)
(* of the call failing).                                                    *)
C27_ConversionInvisible ==
  (last.op = "SetMemoryAttributes" /\ MmuIsInit(mMmuInited, pgdl) /\ ~Failed(last.log))
  => \A a \in AllPages :
       LeafA(last.pre, pgdl, a).kind = "huge"
         => \A k \in 0 .. Len(last.log) :
              LeafA(Replay(last.pre, last.log, k), pgdl, a).kind # "none"


\* a walk for Address from Table (of level Level) in table memory m reads
\* entry i of table T
RECURSIVE Visits(_, _, _, _, _, _)
Visits(m, Table, Level, Address, T, i) ==
  LET x == (Address \div BlockSize(Level)) % (2 ^ EntryBits)
      e == Cell(m, Table, x)
  IN  \/ (Table = T /\ x = i)
      \/ /\ Level < maxLevel - 1
         /\ IsTableEntry(Csr, e, Level)
         /\ Visits(m, e.ppn, Level + 1, Address, T, i)

\* step k of the latest call stores into a table that a walk from the root reaches
LiveStore(k) ==
  /\ last.log[k][1] = "store"
  /\ last.log[k][2] \in Reachable(Replay(last.pre, last.log, k - 1))

\* an update called with TableIsLive = TRUE (translation enabled) on an initialised MMU
LiveUpdate == IsUpdate /\ crmdPg /\ pgdl # 0

(* C28: in an update of a live table, every store into a table reachable    *)
(* from the root is followed at once by an InvalidTlb for an address whose  *)
(* walk reads the stored entry.                                             *)
C28_InvalidationAfterLiveWrite ==
  LiveUpdate
  => \A k \in DOMAIN last.log :
       LiveStore(k)
         => /\ k < Len(last.log)
            /\ last.log[k + 1][1] = "inv"
            /\ last.log[k + 1][2] < BlockSize(0) * 2 ^ EntryBits
            /\ Visits(Replay(last.pre, last.log, k - 1), pgdl, 0, last.log[k + 1][2],
                      last.log[k][2], last.log[k][3])

\* a live update wired a table it had allocated into a reachable table and
\* wrote a leaf of an existing reachable table
C28_Witness ==
  /\ LiveUpdate
  /\ \E k \in DOMAIN last.log :
       /\ LiveStore(k)
       /\ \E T \in 1 .. MaxTables : <<"alloc", T>> \in {last.log[i] : i \in 1 .. k} /\ last.log[k][4].ppn = T
  /\ \E k \in DOMAIN last.log : LiveStore(k) /\ PAGE_VALID \subseteq last.log[k][4].bits

(* C29: in an update, no store into a table that is not (yet) reachable     *)
(* from the root - a table the call allocated, at any depth, the stores of  *)
(* the split included - is followed by an InvalidTlb.                       *)
C29_NoInvalidationUnwired ==
  IsUpdate
  => \A k \in DOMAIN last.log :
       (last.log[k][1] = "store" /\ ~LiveStore(k))
         => (k = Len(last.log) \/ last.log[k + 1][1] # "inv")

\* a live update split a block: it wrote at least two entries of a table it
\* had allocated, and it invalidated for the store that wired the table
C29_Witness ==
  /\ LiveUpdate
  /\ InsideOneBlock
  /\ \E k \in DOMAIN last.log, j \in DOMAIN last.log, T \in 1 .. MaxTables :
       /\ k # j
       /\ WritesNewTable(last.log, k, T) /\ ~LiveStore(k)
       /\ WritesNewTable(last.log, j, T) /\ ~LiveStore(j)
  /\ \E k \in DOMAIN last.log : last.log[k][1] = "inv"

(* C30: after a successful UpdateRegionMapping (start, length, set mask,    *)
(* clear mask) every page of the range is mapped by a leaf whose bits are   *)
(* the bits of the leaf that mapped the page before (none if unmapped, the  *)
(* block's if a block was split) without the clear mask and with the set    *)
(* mask, valid and global set, and whose page number is the page's own.     *)
C30_AttributeMerge ==
  (last.op = "UpdateRegionMapping" /\ last.st = EFI_SUCCESS)
  => \A a \in PagesOf(last.base, last.len) :
       /\ Translate(mem, a).kind # "none"
       /\ Translate(mem, a).bits
            = ((Translate(last.pre, a).bits \ last.mask) \cup last.attr)
                \cup PAGE_VALID \cup PAGE_GLOBAL
       /\ Translate(mem, a).page = a \div EFI_PAGE_SIZE

\* a successful call over a page that was not mapped and a page of a block
\* that had to be split
C30_Witness ==
  /\ last.op = "UpdateRegionMapping" /\ last.st = EFI_SUCCESS
  /\ \E a \in PagesOf(last.base, last.len) : Translate(last.pre, a).kind = "none"
  /\ \E a \in PagesOf(last.base, last.len) :
       /\ Translate(last.pre, a).kind = "block"
       /\ Translate(mem, a).size < Translate(last.pre, a).size

---------------------------------------------------------------------------
(* CpuMmuLib: who owns the table pages *)

\* the entries <<table, index, level>> of table memory m that a walk from the
\* root reads as pointers to a table
Pointers(m) ==
  UNION {{<<x[1], x[2], K>> : x \in {y \in TablesAt(m, K) \X TableIndex :
                                      IsTableEntry(Csr, Cell(m, y[1], y[2]), K)}}
           : K \in 0 .. (maxLevel - 1)}

\* how many steps of log are e
Times(log, e) == Cardinality({i \in DOMAIN log : log[i] = e})

\* the pages the call of log allocated
Allocated(log) == {T \in 1 .. MaxTables : Times(log, <<"alloc", T>>) > 0}

(* C31: no entry that a walk from the root reads as a table pointer points  *)
(* to a page that is not allocated (any more); and a failed update frees no *)
(* table that was reachable from the root before the call and leaves every  *)
(* such table reachable.                                                    *)
C31_NoDangling ==
  (last.op # "Init")
  => /\ \A x \in Pointers(mem) : Cell(mem, x[1], x[2]).ppn \in DOMAIN mem
     /\ (IsUpdate /\ EFI_ERROR(last.st))
          => \A T \in Reachable(last.pre) :
               /\ T \in Reachable(mem)
               /\ Times(last.log, <<"free", T>>) = 0

\* an update wrote an entry of a table (not the root) that was reachable
\* before the call, then ran out of pages and freed a table it had allocated
C31_Witness ==
  /\ IsUpdate /\ last.st = EFI_OUT_OF_RESOURCES
  /\ \E k \in DOMAIN last.log :
       /\ last.log[k][1] = "store"
       /\ last.log[k][2] \in Reachable(last.pre) \ {pgdl}
       /\ \E j \in DOMAIN last.log : j > k /\ last.log[j][1] = "free"
  /\ mem # last.pre

(* C32: when an update fails with EFI_OUT_OF_RESOURCES every page it        *)
(* allocated was either freed, once, and is not allocated any more, or was  *)
(* not freed and is reachable from the root; when it succeeds every page it *)
(* allocated is reachable from the root and none was freed.                 *)
C32_NoLeak ==
  IsUpdate
  => /\ last.st = EFI_OUT_OF_RESOURCES
          => \A T \in Allocated(last.log) :
               /\ Times(last.log, <<"alloc", T>>) = 1
               /\ \/ /\ Times(last.log, <<"free", T>>) = 1
                     /\ T \notin DOMAIN mem
                  \/ /\ Times(last.log, <<"free", T>>) = 0
                     /\ T \in Reachable(mem)
     /\ last.st = EFI_SUCCESS
          => \A T \in Allocated(last.log) :
               /\ Times(last.log, <<"free", T>>) = 0
               /\ T \in Reachable(mem)
     /\ \A T \in 1 .. MaxTables :
          Times(last.log, <<"free", T>>) > 0 => T \in Allocated(last.log)

\* a failed update had a table with a child table wired into it to free
C32_Witness ==
  /\ IsUpdate /\ last.st = EFI_OUT_OF_RESOURCES
  /\ \E T \in Allocated(last.log), U \in Allocated(last.log) :
       /\ T # U
       /\ Times(last.log, <<"free", T>>) = 1
       /\ Times(last.log, <<"free", U>>) = 1
       /\ \E k \in DOMAIN last.log :
            /\ last.log[k][1] = "store"
            /\ last.log[k][2] = T
            /\ last.log[k][4].ppn = U
            /\ ~(PAGE_VALID \subseteq last.log[k][4].bits)

(* C33: the tables reachable from the root form a tree: no two entries      *)
(* point to the same table, no entry points to the root, and no table is    *)
(* reached at two levels.                                                   *)
C33_Tree ==
  (last.op # "Init")
  => /\ \A x \in Pointers(mem), y \in Pointers(mem) :
          x # y => Cell(mem, x[1], x[2]).ppn # Cell(mem, y[1], y[2]).ppn
     /\ \A x \in Pointers(mem) : Cell(mem, x[1], x[2]).ppn # pgdl
     /\ \A K \in 0 .. (maxLevel - 1), J \in 0 .. (maxLevel - 1) :
          K # J => TablesAt(mem, K) \cap TablesAt(mem, J) = {}

\* a failed update left a table it had wired into a table of the tree, next
\* to the tables of the boot-time mapping
C33_Witness ==
  /\ IsUpdate /\ last.st = EFI_OUT_OF_RESOURCES
  /\ Reachable(last.pre) # {pgdl}
  /\ Reachable(mem) # Reachable(last.pre)
  /\ Cardinality(Reachable(mem)) >= 4

---------------------------------------------------------------------------
(* FreePageTablesRecursive of CpuMmuLib, applied to the sub-trees the       *)
(* mapper builds: to every table under the root after the boot-time mapping *)
(* and after an update.                                                     *)

CallFreePageTablesRecursive ==
  /\ last.op \in {"Boot", "UpdateRegionMapping"}
  /\ \E Level \in 1 .. (maxLevel - 1) :
       \E TranslationTable \in TablesAt(mem, Level) \cap DOMAIN mem :
         \E r \in {FreePageTablesRecursive(Machine(mem, 0), Csr, TranslationTable, Level)} :
           /\ mem' = r.mem
           /\ last' = Record("FreePageTablesRecursive", TranslationTable, Level, {},
                             r, mem, NoQuery, FALSE)
  /\ UNCHANGED <<pgdl, mMmuInited, crmdPg, maxLevel, calls>>

NextFree ==
  \/ BootMap
  \/ CallUpdateRegionMapping
  \/ CallFreePageTablesRecursive

SpecFree == InitCpuMmu /\ [][NextFree]_vars

\* the entry e of a table of level K points to a table: the level is not the
\* last, the entry is not empty and it is not a block (huge) entry
PointsToTable(e, K) ==
  /\ K < maxLevel - 1
  /\ e # INVALID_PAGE
  /\ ~(PAGE_HUGE \subseteq e.bits /\ HasHGlobal(e))

\* the tables <<table, level>> of the sub-tree of table T of level K in m
RECURSIVE SubTree(_, _, _)
SubTree(m, T, K) ==
  {<<T, K>>} \cup UNION {SubTree(m, Cell(m, T, i).ppn, K + 1) :
                           i \in {j \in TableIndex : PointsToTable(Cell(m, T, j), K)}}

FreedTables == {x[1] : x \in SubTree(last.pre, last.base, last.len)}

(* C34: FreePageTablesRecursive (table, level) frees the table and the      *)
(* tables reachable from it through table-pointer entries, each once, and   *)
(* nothing else: no page that only a block entry, an empty entry or an      *)
(* entry of a last-level table refers to; the other tables stay as they     *)
(* were.                                                                    *)
C34_FreesSubTree ==
  (last.op = "FreePageTablesRecursive")
  => /\ \A T \in 1 .. MaxTables :
          Times(last.log, <<"free", T>>) = IF T \in FreedTables THEN 1 ELSE 0
     /\ Len(last.log) = Cardinality(FreedTables)
     /\ DOMAIN mem = DOMAIN last.pre \ FreedTables
     /\ \A T \in DOMAIN mem : mem[T] = last.pre[T]

\* the freed sub-tree had three tables or more, one with a block entry and a
\* last-level one with a page entry whose page number is that of a table
\* outside the sub-tree
C34_Witness ==
  /\ last.op = "FreePageTablesRecursive"
  /\ Cardinality(FreedTables) >= 3
  /\ \E x \in SubTree(last.pre, last.base, last.len), i \in TableIndex :
       /\ x[2] < maxLevel - 1
       /\ IsValidHugePage(Cell(last.pre, x[1], i))
  /\ \E x \in SubTree(last.pre, last.base, last.len), i \in TableIndex :
       /\ x[2] = maxLevel - 1
       /\ Cell(last.pre, x[1], i) # INVALID_PAGE
       /\ Cell(last.pre, x[1], i).ppn \in DOMAIN last.pre \ FreedTables

---------------------------------------------------------------------------
(* CpuMmuLib: a request that covers the whole span of a table entry *)

\* the levels whose tables take block entries (CpuMmu.c:400, 489)
BlockLevels == {K \in 0 .. (maxLevel - 2) : K >= 2}

\* the region of the latest call is the span of one entry of level K
CoversEntry(K) == last.base % BlockSize(K) = 0 /\ last.len = BlockSize(K)

\* the table the walk of Address reads at level K
RECURSIVE TableOf(_, _, _, _, _)
TableOf(m, Table, Level, K, Address) ==
  IF Level = K THEN Table
  ELSE TableOf(m, Cell(m, Table, (Address \div BlockSize(Level)) % (2 ^ EntryBits)).ppn,
               Level + 1, K, Address)

(* C35: a successful update whose region is exactly the span of an entry    *)
(* that pointed to a child table, at a level that takes blocks, leaves the  *)
(* entry a block entry with the new attributes, and the child table freed.  *)
C35_Remerge ==
  (IsUpdate /\ last.st = EFI_SUCCESS)
  => \A K \in BlockLevels :
       (CoversEntry(K) /\ TablePath(last.pre, pgdl, 0, K, last.base))
       => /\ Translate(mem, last.base).kind = "block"
          /\ Translate(mem, last.base).size = BlockSize(K)
          /\ Translate(mem, last.base).bits \cap PTE_ATTRIBUTES_MASK
               = SetMask \cap PTE_ATTRIBUTES_MASK
          /\ TableOf(last.pre, pgdl, 0, K + 1, last.base) \notin DOMAIN mem

---------------------------------------------------------------------------
(* CpuMmuLib: the assertions of UpdateRegionMappingRecursive *)

AssertionFailures(log) == {i \in DOMAIN log : log[i][1] = "assert"}

(* C36: in a call of SetMemoryRegionAttributes with PGDL not zero and       *)
(* page-aligned arguments no assertion of UpdateRegionMappingRecursive      *)
(* fails: the level is below the number of levels on entry, the range is    *)
(* page-aligned, and the level is above the last when the mapper descends - *)
(* whether the page-walk controller has been programmed or not.             *)
C36_AssertionsHold ==
  (/\ last.op \in {"Boot", "SetMemoryRegionAttributes"}
   /\ pgdl # 0
   /\ last.base % EFI_PAGE_SIZE = 0 /\ last.len % EFI_PAGE_SIZE = 0)
  => AssertionFailures(last.log) = {}

\* the same with the page-walk controller programmed
AssertionsHoldProgrammed == maxLevel # 0 => C36_AssertionsHold

---------------------------------------------------------------------------
(* LoongArch64CpuMmuLib: a conversion of a huge page that finds no page *)

\* step k of the latest call empties a huge-page PMD entry and the allocation
\* of the page table for it, the next step, fails
ConversionFails(k) ==
  /\ k < Len(last.log)
  /\ last.log[k][1] = "store"
  /\ last.log[k][4] = INVALID_PAGE
  /\ IS_HUGE_PAGE(Cell(Replay(last.pre, last.log, k - 1), last.log[k][2], last.log[k][3]))
  /\ last.log[k + 1] = <<"nomem">>

(* C37: when the allocation of the page table fails while SetMemoryAttributes *)
(* converts a huge-page PMD entry, the PMD entry holds the huge mapping it    *)
(* held before the call once the call has returned.                           *)
C37_ConversionFailureKeepsMapping ==
  (last.op = "SetMemoryAttributes" /\ MmuIsInit(mMmuInited, pgdl))
  => \A k \in DOMAIN last.log :
       ConversionFails(k)
         => Cell(mem, last.log[k][2], last.log[k][3])
              = Cell(last.pre, last.log[k][2], last.log[k][3])

---------------------------------------------------------------------------
(* The leaf writers of the two libraries applied to a range inside one      *)
(* last-level table, the empty range included: MemoryMapPteRange of         *)
(* LoongArch64CpuMmuLib after ConfigureMemoryManagementUint and             *)
(* MmuInitialize, on a PMD entry that is empty or points to a page table    *)
(* (the entries ConvertHugePageToPage passes), and UpdateRegionMapping of   *)
(* CpuMmuLib after the boot-time mapping.                                   *)

RangePages == 0 .. MaxLen

CallMemoryMapPteRange ==
  /\ last.op = "MmuInitialize"
  /\ pgdl # 0 /\ RootUsable
  /\ \E p \in Pages, n \in RangePages, a \in EfiAttrs, b \in Budgets :
       LET Address == p * EFI_PAGE_SIZE
           End     == Address + n * EFI_PAGE_SIZE
           s       == Machine(mem, b)
           Pgd     == PgdOffset(pgdl, Address)
           Pud     == PudOffset(s, Pgd, Address)
           Pmd     == PmdOffset(s, Pud, Address)
       IN  /\ End <= AlignDown(Address, PMD_SIZE) + PMD_SIZE
           /\ ~PGD_IS_EMPTY(Load(s, Pgd[1], Pgd[2]))
           /\ ~PUD_IS_EMPTY(Load(s, Pud[1], Pud[2]))
           /\ ~IS_HUGE_PAGE(Load(s, Pmd[1], Pmd[2]))
           /\ \E r \in {MemoryMapPteRange(s, Pmd, Address, End, EfiAttributeConverse(a))} :
                /\ mem' = r.mem
                /\ last' = Record("MemoryMapPteRange", Address, n * EFI_PAGE_SIZE, a,
                                  r, mem, NoQuery, FALSE)
  /\ UNCHANGED <<pgdl, mMmuInited, crmdPg, maxLevel, calls>>

CallUpdateRegionMappingEmpty ==
  /\ last.op = "Boot"
  /\ \E p \in Pages, k \in UpdateMasks, b \in Budgets :
       \E r \in {UpdateRegionMapping(Machine(mem, b), Csr, p * EFI_PAGE_SIZE, 0,
                                     k[1], k[2], pgdl, MmuIsEnabled(Csr))} :
         /\ mem' = r.mem
         /\ last' = [Record("UpdateRegionMapping", p * EFI_PAGE_SIZE, 0, k[1],
                            r, mem, NoQuery, FALSE)
                       EXCEPT !.mask = k[2]]
  /\ UNCHANGED <<pgdl, mMmuInited, crmdPg, maxLevel, calls>>

InitRange == Init \/ InitCpuMmu

NextRange ==
  \/ CallConfigure
  \/ MmuInitialize
  \/ CallMemoryMapPteRange
  \/ BootMap
  \/ CallUpdateRegionMappingEmpty

SpecRange == InitRange /\ [][NextRange]_vars

\* the stores of log, as <<table, index>>
StoresOf(log) == {<<log[i][2], log[i][3]>> : i \in {j \in DOMAIN log : log[j][1] = "store"}}

\* the page-table entry of page a in table memory m, by the walk of LoongArch64CpuMmuLib
PteOf(m, a) ==
  LET g == Cell(m, pgdl, PGD_INDEX(a))
      u == Cell(m, g.ppn, PUD_INDEX(a))
      d == Cell(m, u.ppn, PMD_INDEX(a))
  IN  <<d.ppn, PTE_INDEX(a)>>

\* the entries MemoryMapPteRange wrote after it had the page table: the stores
\* of the call but the one that wired a page table it allocated
LeafStores ==
  {x \in StoresOf(last.log) :
     \E i \in DOMAIN last.log : /\ last.log[i][1] = "store"
                                /\ <<last.log[i][2], last.log[i][3]>> = x
                                /\ PAGE_VALID \subseteq last.log[i][4].bits}

(* C38: MemoryMapPteRange over a page-aligned range [Address, End) inside   *)
(* one PMD span, Address <= End, that gets its page table writes the        *)
(* last-level entries of the pages of the range and no other entry, none    *)
(* when Address = End, and stays inside its table; UpdateRegionMapping with *)
(* RegionLength 0 returns EFI_SUCCESS and writes nothing.                   *)
C38_BoundedLeafWrites ==
  /\ (last.op = "MemoryMapPteRange" /\ last.st = EFI_SUCCESS)
       => /\ ~last.wild
          /\ LeafStores = {PteOf(mem, a) : a \in PagesOf(last.base, last.len)}
  /\ (last.op = "UpdateRegionMapping" /\ last.len = 0)
       => /\ last.st = EFI_SUCCESS
          /\ last.log = <<>>
          /\ mem = last.pre

\* the same for the ranges that are not empty
BoundedLeafWritesNonEmpty == (last.op = "MemoryMapPteRange" => last.len > 0) => C38_BoundedLeafWrites

---------------------------------------------------------------------------
(* LoongArch64CpuMmuLib: the root table CSR PGDL names *)

(* C39: CSR PGDL is zero or names a root table that is allocated and not    *)
(* freed; after a failed ConfigureMemoryManagementUint MmuIsInit reports    *)
(* FALSE and every table page the attempt allocated has been freed.         *)
C39_RootRegisterValid ==
  /\ pgdl # 0 => pgdl \in DOMAIN mem
  /\ (last.op = "Configure" /\ EFI_ERROR(last.st))
       => /\ ~MmuIsInit(mMmuInited, pgdl)
          /\ \A T \in Allocated(last.log) : T \notin DOMAIN mem

---------------------------------------------------------------------------
(* CpuExceptionHandlerLib/LoongArch/ExceptionCommon.c: IpiInterruptHandler  *)
(* run by the processor that took the IPI, from its first statement to its  *)
(* return.  IpiStatus, Mbuf0 and Mbuf3 are the processor's IOCSR registers  *)
(* IPI_STATUS, MBUF0 and MBUF3, CpuNum is CSR CPUNUM, Context the saved     *)
(* system context; AtEntry keeps what they were when the handler was        *)
(* entered.  No other processor sends to this one while the handler runs.   *)

BIT2 == 4

IpiValues == 0 .. MaxValue
PrmdValues == 0 .. (2 * BIT2 - 1)

\* A variant that clears the whole register.
ClearAll(Prmd) == 0

\* PRMD &= ~BIT2
ClearPie(Prmd) == BitAnd(Prmd, Pow2(RegWidth) - 1 - BIT2)

\* A write of Value to IPI_CLEAR clears the bits of IPI_STATUS that are set in Value.
IpiClear(Status, Value) == Status - BitAnd(Status, Value)

InitIpi ==
  /\ mem = <<>>
  /\ pgdl = 0
  /\ mMmuInited = FALSE
  /\ crmdPg = FALSE
  /\ maxLevel = 0
  /\ calls = 0
  /\ \E st \in IpiValues \ {0}, m0 \in IpiValues, m3 \in IpiValues, n \in {0, 1},
        era \in {1, MaxValue}, prmd \in PrmdValues, r4 \in {0, MaxValue}, r5 \in {0, MaxValue} :
       last = [op |-> "IpiInterruptHandler", pc |-> "clear",
               IpiStatus |-> st, Mbuf0 |-> m0, Mbuf3 |-> m3, CpuNum |-> n,
               Context |-> [ERA |-> era, PRMD |-> prmd, R4 |-> r4, R5 |-> r5],
               ResumeVector |-> 0, Parameter |-> 0,
               AtEntry |-> [IpiStatus |-> st, Mbuf0 |-> m0, Mbuf3 |-> m3,
                            Context |-> [ERA |-> era, PRMD |-> prmd, R4 |-> r4, R5 |-> r5]]]

\* IoCsrWrite32 (LOONGARCH_IOCSR_IPI_CLEAR, IoCsrRead32 (LOONGARCH_IOCSR_IPI_STATUS))
IpiClearInterrupt ==
  /\ last.op = "IpiInterruptHandler"
  /\ last.pc = "clear"
  /\ last' = [last EXCEPT !.IpiStatus = IpiClear(@, last.IpiStatus), !.pc = "get"]
  /\ UNCHANGED <<mem, pgdl, mMmuInited, crmdPg, maxLevel, calls>>

\* ResumeVector = IoCsrRead64 (MBUF0); Parameter = IoCsrRead64 (MBUF3)
IpiGetMailboxes ==
  /\ last.op = "IpiInterruptHandler"
  /\ last.pc = "get"
  /\ last' = [last EXCEPT !.ResumeVector = last.Mbuf0, !.Parameter = last.Mbuf3,
                          !.pc = "clean"]
  /\ UNCHANGED <<mem, pgdl, mMmuInited, crmdPg, maxLevel, calls>>

\* IoCsrWrite64 (MBUF0, 0x0); IoCsrWrite64 (MBUF3, 0x0)
IpiCleanMailboxes ==
  /\ last.op = "IpiInterruptHandler"
  /\ last.pc = "clean"
  /\ last' = [last EXCEPT !.Mbuf0 = 0, !.Mbuf3 = 0, !.pc = "test"]
  /\ UNCHANGED <<mem, pgdl, mMmuInited, crmdPg, maxLevel, calls>>

\* ResumeVector != 0, Parameter == 0: ERA = ResumeVector; PRMD &= ~BIT2
IpiResumeKernel ==
  /\ last.op = "IpiInterruptHandler"
  /\ last.pc = "test"
  /\ last.ResumeVector # 0
  /\ last.Parameter = 0
  /\ last' = [last EXCEPT !.Context.ERA = last.ResumeVector,
                          !.Context.PRMD = ClearPie(@),
                          !.pc = "fence"]
  /\ UNCHANGED <<mem, pgdl, mMmuInited, crmdPg, maxLevel, calls>>

\* ResumeVector != 0, Parameter != 0: ERA = ResumeVector; R4 = CsrRead (CPUNUM); R5 = Parameter
IpiResumeWithParameter ==
  /\ last.op = "IpiInterruptHandler"
  /\ last.pc = "test"
  /\ last.ResumeVector # 0
  /\ last.Parameter # 0
  /\ last' = [last EXCEPT !.Context.ERA = last.ResumeVector,
                          !.Context.R4 = last.CpuNum,
                          !.Context.R5 = last.Parameter,
                          !.pc = "fence"]
  /\ UNCHANGED <<mem, pgdl, mMmuInited, crmdPg, maxLevel, calls>>

\* ResumeVector == 0
IpiNoResume ==
  /\ last.op = "IpiInterruptHandler"
  /\ last.pc = "test"
  /\ last.ResumeVector = 0
  /\ last' = [last EXCEPT !.pc = "fence"]
  /\ UNCHANGED <<mem, pgdl, mMmuInited, crmdPg, maxLevel, calls>>

\* MemoryFence (); the handler returns
IpiMemoryFence ==
  /\ last.op = "IpiInterruptHandler"
  /\ last.pc = "fence"
  /\ last' = [last EXCEPT !.pc = "return"]
  /\ UNCHANGED <<mem, pgdl, mMmuInited, crmdPg, maxLevel, calls>>

NextIpi ==
  \/ IpiClearInterrupt
  \/ IpiGetMailboxes
  \/ IpiCleanMailboxes
  \/ IpiResumeKernel
  \/ IpiResumeWithParameter
  \/ IpiNoResume
  \/ IpiMemoryFence

SpecIpi == InitIpi /\ [][NextIpi]_vars

\* x with bit 2 cleared
WithoutBit2(x) == IF (x \div 4) % 2 = 1 THEN x - 4 ELSE x

(* C40: when IpiInterruptHandler has returned, the IPI status it found is   *)
(* cleared and mailbox 0 and mailbox 3 read zero; if mailbox 0 held zero    *)
(* the saved context is as it was; if it held a resume vector, ERA is the   *)
(* resume vector and, mailbox 3 holding zero, PRMD has lost bit 2 and       *)
(* nothing else has changed, or, mailbox 3 holding a parameter, R4 is the   *)
(* CPU number, R5 the parameter and PRMD is as it was.                      *)
C40_IpiHandler ==
  (last.op = "IpiInterruptHandler" /\ last.pc = "return")
  => /\ last.IpiStatus = 0
     /\ last.Mbuf0 = 0
     /\ last.Mbuf3 = 0
     /\ last.AtEntry.Mbuf0 = 0 => last.Context = last.AtEntry.Context
     /\ (last.AtEntry.Mbuf0 # 0 /\ last.AtEntry.Mbuf3 = 0)
          => last.Context = [last.AtEntry.Context EXCEPT
                               !.ERA = last.AtEntry.Mbuf0,
                               !.PRMD = WithoutBit2(last.AtEntry.Context.PRMD)]
     /\ (last.AtEntry.Mbuf0 # 0 /\ last.AtEntry.Mbuf3 # 0)
          => last.Context = [last.AtEntry.Context EXCEPT
                               !.ERA = last.AtEntry.Mbuf0,
                               !.R4 = last.CpuNum,
                               !.R5 = last.AtEntry.Mbuf3]

\* the handler has returned from a wake-up without parameter that found the
\* interrupt-enable bit and another bit of PRMD set, and a resume vector
\* other than the saved ERA
C40_Witness ==
  /\ last.op = "IpiInterruptHandler" /\ last.pc = "return"
  /\ last.AtEntry.IpiStatus # 0
  /\ last.AtEntry.Mbuf0 # 0 /\ last.AtEntry.Mbuf3 = 0
  /\ last.AtEntry.Mbuf0 # last.AtEntry.Context.ERA
  /\ last.AtEntry.Context.PRMD = BIT2 + 1
  /\ last.Context.PRMD = 1

=============================================================================
